---- MODULE Spec2Model ----
(***************************************************************************)
(* The OMG bytecode virtual machine: the fetch-decode-execute loop of      *)
(* run (runtime/src/vm.rs), its call frames, tail calls, protected regions *)
(* and error unwinding.                                                    *)
(*                                                                         *)
(* The bytecode is an input of run.  It is chosen lazily: a code slot is   *)
(* decided the first time pc reaches it and is fixed from then on, so the  *)
(* behaviours of the model are exactly the runs of all programs of CodeLen *)
(* instructions over the instruction alphabet below.                       *)
(*                                                                         *)
(* A second specification, SpecTail, calls run on a program whose last     *)
(* function ends with `Call f; Ret` and then on the same program ending    *)
(* with `TailCall f`, to compare what the two runs produce.                *)
(*                                                                         *)
(* Lists and dictionaries live in heap, a sequence of cells that values    *)
(* reference by address (Rc<RefCell<..>> in the source).  SpecHeap runs    *)
(* programs that build and update aggregates, SpecArith the divisions of   *)
(* all machine integers, SpecSlice the slices of short lists and strings.  *)
(* SpecParse applies parse_bytecode (runtime/src/bytecode.rs) to encoded   *)
(* images and to raw byte strings, and SpecLoad parses an image and runs   *)
(* it, as main does.                                                       *)
(*                                                                         *)
(* The integer instructions and the builtins follow the handlers of        *)
(* runtime/src/vm/ops_arith.rs and runtime/src/vm/builtins.rs with         *)
(* Value::as_int of runtime/src/value.rs.  SpecCoerce runs the integer     *)
(* instructions on integers, strings and None, SpecBuiltins every builtin  *)
(* on 0..2 arguments of every type, directly and through call_builtin,     *)
(* SpecDict BuildDict on pairs whose keys can collide.  SpecFiles is the   *)
(* file builtins called by parallel threads that share NEXT_FD and         *)
(* FILE_HANDLES.                                                           *)
(***************************************************************************)
EXTENDS Integers, Sequences, FiniteSets, TLC

(* ------------------------------ bounds --------------------------------- *)

\* number of instruction slots of the program under execution
CodeLen == 4
\* operand-stack height up to which execution is followed
MaxStack == 2
\* call depth (len(env_stack)) up to which execution is followed
MaxDepth == 2
\* number of live protected regions up to which execution is followed
MaxBlocks == 2
\* number of errors delivered to handlers up to which execution is followed
MaxCaught == 2
\* width in bits of the machine integer (i64 scaled down): values are
\* MinInt .. MaxInt
IntBits == 4
\* width in bits of a file handle: an i32 is half an i64
FdBits == IntBits \div 2

(* ------------------------------ values --------------------------------- *)

IntV(i) == [t |-> "Int", i |-> i]
StrV(s) == [t |-> "Str", s |-> s]
BoolV(b) == [t |-> "Bool", b |-> b]
NoneV == [t |-> "None"]

Digit(d) == CASE d = 0 -> "0" [] d = 1 -> "1" [] d = 2 -> "2" [] d = 3 -> "3"
              [] d = 4 -> "4" [] d = 5 -> "5" [] d = 6 -> "6" [] d = 7 -> "7"
              [] d = 8 -> "8" [] d = 9 -> "9"

RECURSIVE NatToString(_)
NatToString(n) == IF n < 10 THEN Digit(n) ELSE NatToString(n \div 10) \o Digit(n % 10)

\* i64::to_string
IntToString(i) == IF i < 0 THEN "-" \o NatToString(-i) ELSE NatToString(i)

\* `format!("{:x}", n)` and `format!("{:b}", n)` of n >= 0 in base 16 and 2
RECURSIVE ToBase(_, _)
ToBase(n, base) ==
    LET Numeral(d) == IF d < 10 THEN Digit(d)
                      ELSE CASE d = 10 -> "a" [] d = 11 -> "b" [] d = 12 -> "c"
                             [] d = 13 -> "d" [] d = 14 -> "e" [] d = 15 -> "f"
    IN IF n < base THEN Numeral(n) ELSE ToBase(n \div base, base) \o Numeral(n % base)

\* Value::to_string on the scalar variants
to_string(v) ==
    CASE v.t = "Int" -> IntToString(v.i)
      [] v.t = "Str" -> v.s
      [] v.t = "Bool" -> (IF v.b THEN "true" ELSE "false")
      [] v.t = "None" -> ""

\* Value::as_bool on the scalar variants
as_bool(v) ==
    CASE v.t = "Bool" -> v.b
      [] v.t = "Int" -> v.i # 0
      [] v.t = "Str" -> v.s # ""
      [] v.t = "None" -> FALSE

(* ------------------------------ errors --------------------------------- *)

ErrorKinds == {"Generic", "Syntax", "Type", "UndefinedIdent", "Value", "ModuleImport"}

NoError == [k |-> "none"]
AssertionError == [k |-> "AssertionError"]
TypeError(m) == [k |-> "TypeError", msg |-> m]
UndefinedIdentError(m) == [k |-> "UndefinedIdentError", msg |-> m]
VmInvariant(m) == [k |-> "VmInvariant", msg |-> m]

\* into_runtime altered: every kind gives Raised
into_runtime_raised(kind, msg) == [k |-> "Raised", msg |-> msg]

\* ErrorKind::into_runtime
into_runtime(kind, msg) ==
    CASE kind = "Generic" -> [k |-> "Raised", msg |-> msg]
      [] kind = "Syntax" -> [k |-> "SyntaxError", msg |-> msg]
      [] kind = "Type" -> [k |-> "TypeError", msg |-> msg]
      [] kind = "UndefinedIdent" -> [k |-> "UndefinedIdentError", msg |-> msg]
      [] kind = "Value" -> [k |-> "ValueError", msg |-> msg]
      [] kind = "ModuleImport" -> [k |-> "ModuleImportError", msg |-> msg]

\* impl Display for RuntimeError
Display(e) ==
    CASE e.k = "AssertionError" -> "AssertionError: assertion failed"
      [] e.k = "FrozenWriteError" -> "FrozenWriteError: Imported modules are read-only"
      [] e.k = "IndexError" -> "IndexError: " \o e.msg
      [] e.k = "KeyError" -> "KeyError: \"Key '" \o e.msg \o "' not found\""
      [] e.k = "ModuleImportError" -> "ModuleImportError: " \o e.msg
      [] e.k = "SyntaxError" -> "SyntaxError: " \o e.msg
      [] e.k = "TypeError" -> "TypeError: " \o e.msg
      [] e.k = "UndefinedIdentError" -> "UndefinedIdentError: " \o e.msg
      [] e.k = "ValueError" -> "ValueError: " \o e.msg
      [] e.k = "ZeroDivisionError" -> "ZeroDivisionError: integer division or modulo by zero"
      [] e.k = "Raised" -> "RuntimeError: " \o e.msg
      [] e.k = "VmInvariant" -> "VmInvariant: " \o e.msg

(* ------------------------- program and machine -------------------------- *)

Names == {"x", "current_dir"}
FuncNames == {"f", "g", "boom", "u"}
TailNames == {"f", "boom"}

\* the function table handed to run: f() and boom(x) with the same entry, and
\* g(); "u" is not in the table
FuncTable ==
    [f |-> [params |-> << >>, address |-> 2],
     boom |-> [params |-> <<"x">>, address |-> 2],
     g |-> [params |-> << >>, address |-> 3]]

VARIABLES
    code,         \* the instruction vector (slots not yet reached are Undecided)
    funcs,        \* the function table
    stack,        \* operand stack
    globals,      \* global environment
    env,          \* local environment of the current frame
    env_stack,    \* saved environments of the callers
    ret_stack,    \* return addresses of the callers
    pc,           \* program counter
    block_stack,  \* protected regions
    output,       \* lines written by Emit
    heap,         \* the aggregates allocated so far (Rc cells), by address 1, 2, ...
    status,       \* "running", or how run ended: "Ok", "Err", "panic"
    error,        \* the error run returned (NoError unless status = "Err")
    instr,        \* the instruction executed by the last step
    instr_res,    \* its result: NoError or the error it failed with
    handled,      \* whether the last step delivered its error to a handler
    caught,       \* number of errors delivered to handlers so far
    call_height,  \* for each live frame: the call that pushed it (op), the operand-stack
                  \* height h it executed at, the height base its callee started with,
                  \* where the call is (pc) and the env it executed in (env)
    prev,         \* the registers (and call_height) before the last step
    variant,      \* which program of a Call/Ret - TailCall pair is running ("none": no pair)
    first,        \* what the run of the first program of the pair produced
    data,         \* the bytecode image handed to parse_bytecode (<< >>: none)
    source,       \* the instruction stream and function table data encodes
    files,        \* the statics NEXT_FD and FILE_HANDLES of the process
    callers       \* the threads that call builtins: where each one is inside
                  \* file_open, what the calls returned so far, and the last call

vars == <<code, funcs, stack, globals, env, env_stack, ret_stack, pc, block_stack,
          output, heap, status, error, instr, instr_res, handled, caught, call_height,
          prev, variant, first, data, source, files, callers>>

Undecided == [op |-> "?"]
NoInstr == [op |-> "none"]

\* the machine registers as one record
VM == [stack |-> stack, globals |-> globals, env |-> env, env_stack |-> env_stack,
       ret_stack |-> ret_stack, pc |-> pc, block_stack |-> block_stack, output |-> output,
       heap |-> heap, files |-> files]

\* the registers together with call_height
Snapshot ==
    [stack |-> stack, globals |-> globals, env |-> env, env_stack |-> env_stack,
     ret_stack |-> ret_stack, pc |-> pc, block_stack |-> block_stack, output |-> output,
     heap |-> heap, files |-> files, call_height |-> call_height]

\* code.len()
code_len == Cardinality(DOMAIN code)

\* HashMap::new()
EmptyMap == [n \in {} |-> NoneV]

\* HashMap::insert
Insert(m, k, v) == [n \in (DOMAIN m) \cup {k} |-> IF n = k THEN v ELSE m[n]]

\* Vec::truncate
Truncate(seq, n) == IF Len(seq) > n THEN SubSeq(seq, 1, n) ELSE seq

Front(seq) == SubSeq(seq, 1, Len(seq) - 1)
Top(seq) == seq[Len(seq)]

(* What one arm of the match in run does.  exit says how the arm leaves:   *)
(* "ok" (falls through to `break Ok(())`), "break" (`break Err(e)`, the    *)
(* error goes to the unwinding code), "return" (`?` on pop: run returns    *)
(* Err(e) at once) or "panic" (unwrap on None).                            *)
Completed(s) == [s |-> s, exit |-> "ok", err |-> NoError, advance_pc |-> TRUE]
Transferred(s) == [s |-> s, exit |-> "ok", err |-> NoError, advance_pc |-> FALSE]
BreakErr(s, e) == [s |-> s, exit |-> "break", err |-> e, advance_pc |-> TRUE]
ReturnErr(s, e) == [s |-> s, exit |-> "return", err |-> e, advance_pc |-> TRUE]
Panicked(s) == [s |-> s, exit |-> "panic", err |-> NoError, advance_pc |-> TRUE]

\* pop(stack)? failing: the error of fn pop
Underflow == VmInvariant("stack underflow")

Push(s, v) == [s EXCEPT !.stack = Append(@, v)]
Drop(s, n) == [s EXCEPT !.stack = SubSeq(@, 1, Len(@) - n)]

PushInt(s, v) == Completed(Push(s, IntV(v)))
PushStr(s, str) == Completed(Push(s, StrV(str)))

\* Instr::Load
Load(s, name) ==
    IF name \in DOMAIN s.env THEN Completed(Push(s, s.env[name]))
    ELSE IF name \in DOMAIN s.globals THEN Completed(Push(s, s.globals[name]))
    ELSE Completed(Push(s, IntV(0)))

\* Store altered: in a function frame the value always goes to the local env
StoreLocalInFrame(s, name) ==
    IF s.stack = << >> THEN Completed(s)
    ELSE LET v == Top(s.stack)
             r == Drop(s, 1)
         IN IF r.env_stack = << >> THEN Completed([r EXCEPT !.globals = Insert(@, name, v)])
            ELSE Completed([r EXCEPT !.env = Insert(@, name, v)])

\* Instr::Store
Store(s, name) ==
    IF s.stack = << >> THEN Completed(s)
    ELSE LET v == Top(s.stack)
             r == Drop(s, 1)
         IN IF r.env_stack = << >> THEN Completed([r EXCEPT !.globals = Insert(@, name, v)])
            ELSE IF name \in DOMAIN r.env THEN Completed([r EXCEPT !.env = Insert(@, name, v)])
            ELSE IF name \in DOMAIN r.globals THEN Completed([r EXCEPT !.globals = Insert(@, name, v)])
            ELSE Completed([r EXCEPT !.env = Insert(@, name, v)])

\* Instr::Assert
AssertInstr(s) ==
    IF s.stack = << >> THEN ReturnErr(s, Underflow)
    ELSE IF as_bool(Top(s.stack)) THEN Completed(Drop(s, 1))
    ELSE BreakErr(Drop(s, 1), AssertionError)

\* the loop `for param in func.params.iter().rev() { new_env.insert(param, arg) }`
\* where vals are the values taken for the parameters, in declaration order:
\* the last parameter is inserted first, so of two parameters of one name the
\* earlier one is inserted later and stays
RECURSIVE BindParams(_, _)
BindParams(params, vals) ==
    IF params = << >> THEN EmptyMap
    ELSE Insert(BindParams(Tail(params), Tail(vals)), Head(params), Head(vals))

\* the top n values of the stack, bottom first
TopN(stk, n) == SubSeq(stk, Len(stk) - n + 1, Len(stk))

\* Call altered: no return address is pushed
CallWithoutReturnAddress(s, fs, name) ==
    IF name \in DOMAIN fs
    THEN LET func == fs[name]
             n == Len(func.params)
         IN IF Len(s.stack) < n THEN ReturnErr([s EXCEPT !.stack = << >>], Underflow)
            ELSE Transferred([Drop(s, n) EXCEPT
                     !.env_stack = Append(@, s.env),
                     !.env = BindParams(func.params, TopN(s.stack, n)),
                     !.pc = func.address])
    ELSE BreakErr(s, UndefinedIdentError(name))

\* Instr::Call
Call(s, fs, name) ==
    IF name \in DOMAIN fs
    THEN LET func == fs[name]
             n == Len(func.params)
         IN IF Len(s.stack) < n THEN ReturnErr([s EXCEPT !.stack = << >>], Underflow)
            ELSE Transferred([Drop(s, n) EXCEPT
                     !.env_stack = Append(@, s.env),
                     !.ret_stack = Append(@, s.pc + 1),
                     !.env = BindParams(func.params, TopN(s.stack, n)),
                     !.pc = func.address])
    ELSE BreakErr(s, UndefinedIdentError(name))

\* TailCall altered: the frame is pushed as Call pushes it
TailCallPushingFrame(s, fs, name) ==
    IF name \in DOMAIN fs
    THEN LET func == fs[name]
             n == Len(func.params)
         IN IF Len(s.stack) < n THEN ReturnErr([s EXCEPT !.stack = << >>], Underflow)
            ELSE Transferred([Drop(s, n) EXCEPT
                     !.env_stack = Append(@, s.env),
                     !.ret_stack = Append(@, s.pc + 1),
                     !.env = BindParams(func.params, TopN(s.stack, n)),
                     !.pc = func.address])
    ELSE BreakErr(s, UndefinedIdentError(name))

\* Instr::TailCall
TailCall(s, fs, name) ==
    IF name \in DOMAIN fs
    THEN LET func == fs[name]
             n == Len(func.params)
         IN IF Len(s.stack) < n THEN ReturnErr([s EXCEPT !.stack = << >>], Underflow)
            ELSE Transferred([Drop(s, n) EXCEPT
                     !.env = BindParams(func.params, TopN(s.stack, n)),
                     !.pc = func.address])
    ELSE BreakErr(s, UndefinedIdentError(name))

\* CallValue altered: the frame is pushed before the callee is looked up
CallValuePushingFirst(s, fs, argc) ==
    IF Len(s.stack) < argc + 1 THEN ReturnErr([s EXCEPT !.stack = << >>], Underflow)
    ELSE LET args_vec == TopN(s.stack, argc)
             func_val == s.stack[Len(s.stack) - argc]
             r == [Drop(s, argc + 1) EXCEPT
                      !.env_stack = Append(@, s.env),
                      !.ret_stack = Append(@, s.pc + 1)]
         IN IF func_val.t = "Str"
            THEN IF func_val.s \in DOMAIN fs
                 THEN LET func == fs[func_val.s]
                          n == Len(func.params)
                      IN IF argc < n THEN Panicked(Drop(s, argc + 1))
                         ELSE Transferred([r EXCEPT
                                  !.env = BindParams(func.params, TopN(args_vec, n)),
                                  !.pc = func.address])
                 ELSE BreakErr(r, UndefinedIdentError(func_val.s))
            ELSE BreakErr(r, TypeError("Call value expects function name"))

\* Instr::CallValue
CallValue(s, fs, argc) ==
    IF Len(s.stack) < argc + 1 THEN ReturnErr([s EXCEPT !.stack = << >>], Underflow)
    ELSE LET args_vec == TopN(s.stack, argc)
             func_val == s.stack[Len(s.stack) - argc]
             r == Drop(s, argc + 1)
         IN IF func_val.t = "Str"
            THEN IF func_val.s \in DOMAIN fs
                 THEN LET func == fs[func_val.s]
                          n == Len(func.params)
                      IN IF argc < n THEN Panicked(r)   \* args_vec.pop().unwrap()
                         ELSE Transferred([r EXCEPT
                                  !.env_stack = Append(@, s.env),
                                  !.ret_stack = Append(@, s.pc + 1),
                                  !.env = BindParams(func.params, TopN(args_vec, n)),
                                  !.pc = func.address])
                 ELSE BreakErr(r, UndefinedIdentError(func_val.s))
            ELSE BreakErr(r, TypeError("Call value expects function name"))

\* Instr::Pop
Pop(s) == IF s.stack = << >> THEN Completed(s) ELSE Completed(Drop(s, 1))

\* Ret altered: the return value is not pushed back
RetDroppingValue(s) ==
    LET r == IF s.stack = << >> THEN s ELSE Drop(s, 1)
    IN IF r.ret_stack = << >> \/ r.env_stack = << >> THEN Panicked(r)
       ELSE Transferred([r EXCEPT
                !.pc = Top(s.ret_stack),
                !.ret_stack = Front(@),
                !.env = Top(s.env_stack),
                !.env_stack = Front(@)])

\* Ret altered: the callee's env stays the current one
RetKeepingEnv(s) ==
    LET ret_val == IF s.stack = << >> THEN IntV(0) ELSE Top(s.stack)
        r == IF s.stack = << >> THEN s ELSE Drop(s, 1)
    IN IF r.ret_stack = << >> \/ r.env_stack = << >> THEN Panicked(r)
       ELSE Transferred([r EXCEPT
                !.pc = Top(s.ret_stack),
                !.ret_stack = Front(@),
                !.env_stack = Front(@),
                !.stack = Append(@, ret_val)])

\* Instr::Ret
Ret(s) ==
    LET ret_val == IF s.stack = << >> THEN IntV(0) ELSE Top(s.stack)
        r == IF s.stack = << >> THEN s ELSE Drop(s, 1)
    IN IF r.ret_stack = << >> \/ r.env_stack = << >> THEN Panicked(r)
       ELSE Transferred([r EXCEPT
                !.pc = Top(s.ret_stack),
                !.ret_stack = Front(@),
                !.env = Top(s.env_stack),
                !.env_stack = Front(@),
                !.stack = Append(@, ret_val)])

\* Instr::Emit
Emit(s) ==
    IF s.stack = << >> THEN Completed(s)
    ELSE Completed([Drop(s, 1) EXCEPT !.output = Append(@, to_string(Top(s.stack)))])

\* Instr::Halt
Halt(s, len) == Transferred([s EXCEPT !.pc = len])

\* Instr::SetupExcept
SetupExcept(s, target) ==
    Completed([s EXCEPT !.block_stack = Append(@,
        [handler |-> target, stack_size |-> Len(s.stack),
         env_depth |-> Len(s.env_stack), ret_depth |-> Len(s.ret_stack)])])

\* Instr::PopBlock
PopBlock(s) ==
    IF s.block_stack = << >> THEN Completed(s)
    ELSE Completed([s EXCEPT !.block_stack = Front(@)])

\* Raise altered: on an empty stack the error is of the kind of the instruction
RaiseKindOnUnderflow(s, kind) ==
    IF s.stack = << >> THEN BreakErr(s, into_runtime(kind, "stack underflow on RAISE"))
    ELSE BreakErr(Drop(s, 1), into_runtime(kind, to_string(Top(s.stack))))

\* Instr::Raise
Raise(s, kind) ==
    IF s.stack = << >> THEN BreakErr(s, VmInvariant("stack underflow on RAISE"))
    ELSE BreakErr(Drop(s, 1), into_runtime(kind, to_string(Top(s.stack))))

(* ------------------------------ the driver ------------------------------ *)

Max(a, b) == IF a > b THEN a ELSE b

\* Unwind altered: every block is removed
UnwindAllBlocks(s, e) ==
    LET block == Top(s.block_stack)
        popped == Max(0, Len(s.env_stack) - block.env_depth)
    IN [s EXCEPT
           !.block_stack = << >>,
           !.env = IF popped > 0 THEN s.env_stack[block.env_depth + 1] ELSE @,
           !.env_stack = Truncate(@, block.env_depth),
           !.ret_stack = Truncate(Truncate(@, Max(0, Len(@) - popped)), block.ret_depth),
           !.stack = Append(Truncate(@, block.stack_size), StrV(Display(e))),
           !.pc = block.handler]

\* Unwind altered: the frames of the calls made inside the region are kept
UnwindKeepingFrames(s, e) ==
    LET block == Top(s.block_stack)
    IN [s EXCEPT
           !.block_stack = Front(@),
           !.stack = Append(Truncate(@, block.stack_size), StrV(Display(e))),
           !.pc = block.handler]

\* Unwind altered: the operand stack is not cut back to stack_size
UnwindKeepingStack(s, e) ==
    LET block == Top(s.block_stack)
        popped == Max(0, Len(s.env_stack) - block.env_depth)
    IN [s EXCEPT
           !.block_stack = Front(@),
           !.env = IF popped > 0 THEN s.env_stack[block.env_depth + 1] ELSE @,
           !.env_stack = Truncate(@, block.env_depth),
           !.ret_stack = Truncate(Truncate(@, Max(0, Len(@) - popped)), block.ret_depth),
           !.stack = Append(@, StrV(Display(e))),
           !.pc = block.handler]

\* vm.rs, `while let Some(block) = block_stack.pop() { ... break; }`: the
\* innermost block catches error e
Unwind(s, e) ==
    LET block == Top(s.block_stack)
        popped == Max(0, Len(s.env_stack) - block.env_depth)
    IN [s EXCEPT
           !.block_stack = Front(@),
           !.env = IF popped > 0 THEN s.env_stack[block.env_depth + 1] ELSE @,
           !.env_stack = Truncate(@, block.env_depth),
           !.ret_stack = Truncate(Truncate(@, Max(0, Len(@) - popped)), block.ret_depth),
           !.stack = Append(Truncate(@, block.stack_size), StrV(Display(e))),
           !.pc = block.handler]

\* vm.rs, the rest of the loop body after the match: what becomes of the
\* outcome o of the arm
Driver(o) ==
    CASE o.exit = "return" ->
             [s |-> o.s, status |-> "Err", error |-> o.err, handled |-> FALSE]
      [] o.exit = "panic" ->
             [s |-> o.s, status |-> "panic", error |-> NoError, handled |-> FALSE]
      [] o.exit = "break" ->
             IF o.s.block_stack = << >>
             THEN [s |-> o.s, status |-> "Err", error |-> o.err, handled |-> FALSE]
             ELSE [s |-> Unwind(o.s, o.err), status |-> "running", error |-> NoError,
                   handled |-> TRUE]
      [] o.exit = "ok" ->
             [s |-> IF o.advance_pc THEN [o.s EXCEPT !.pc = @ + 1] ELSE o.s,
              status |-> "running", error |-> NoError, handled |-> FALSE]

(* ------------------------------ the inputs ------------------------------ *)

Ints == {0}
Strs == {"boom"}
Targets == {0, CodeLen - 1}
Argcs == {0, 1}

\* run(&code, &funcs, &[]): the globals seeded for an empty argument list
\* (the `args` list is left out: no instruction of the alphabet names it)
SeedGlobals == [module_file |-> StrV("<stdin>"), current_dir |-> StrV(".")]

\* no run of a first program to compare with
NoRun == [status |-> "none"]

\* no instruction stream that an image was encoded from
NoSource == [code |-> "none"]

\* the statics of builtins.rs when the process starts: NEXT_FD is 0 and
\* FILE_HANDLES is the empty map
NoFiles == [next_fd |-> 0, table |-> EmptyMap]

\* the threads that run a VM instance each, besides the one that executes run
Threads == {"vm1", "vm2"}

\* where a thread is: between two calls of builtins, or inside file_open
\* after `NEXT_FD.fetch_add(1)` gave it handle and before it locks
\* FILE_HANDLES to insert entry
Idle == [k |-> "idle"]
Fetched(handle, entry, args) ==
    [k |-> "fetched", handle |-> handle, entry |-> entry, args |-> args]

\* no call of a thread has returned
NoCall == [tick |-> 0, name |-> "none", args |-> << >>, ok |-> FALSE, val |-> NoneV,
           err |-> NoError]

(* callers.at is where each thread is and callers.last the last call that   *)
(* returned to a thread, with its result (tick alternates with each call).  *)
(* The history of the handles: issued, the integers that file_open has      *)
(* returned; live, those of them not passed to a successful file_close      *)
(* since they were returned; closed, the integers passed to a successful    *)
(* file_close.                                                              *)
NoCallers == [at |-> [t \in Threads |-> Idle], last |-> NoCall,
              issued |-> {}, live |-> {}, closed |-> {}]

Init ==
    /\ code = [i \in 0..(CodeLen - 1) |-> Undecided]
    /\ funcs = FuncTable
    /\ stack = << >>
    /\ globals = SeedGlobals
    /\ env = EmptyMap
    /\ env_stack = << >>
    /\ ret_stack = << >>
    /\ pc = 0
    /\ block_stack = << >>
    /\ output = << >>
    /\ heap = << >>
    /\ status = "running"
    /\ error = NoError
    /\ instr = NoInstr
    /\ instr_res = NoError
    /\ handled = FALSE
    /\ caught = 0
    /\ call_height = << >>
    /\ files = NoFiles
    /\ prev = Snapshot
    /\ variant = "none"
    /\ first = NoRun
    /\ data = << >>
    /\ source = NoSource
    /\ callers = NoCallers

\* `while pc < code.len()` holds and code[pc] is ins (decided now if the slot
\* was not reached before); execution is followed within the bounds
Fetch(ins) ==
    /\ status = "running"
    /\ pc < code_len
    /\ Len(stack) <= MaxStack
    /\ Len(env_stack) <= MaxDepth
    /\ Len(block_stack) <= MaxBlocks
    /\ caught <= MaxCaught
    /\ code[pc] \in {Undecided, ins}
    /\ code' = [code EXCEPT ![pc] = ins]
    /\ instr' = ins

\* the step ends as the driver says
Commit(d, res) ==
    /\ stack' = d.s.stack
    /\ globals' = d.s.globals
    /\ env' = d.s.env
    /\ env_stack' = d.s.env_stack
    /\ ret_stack' = d.s.ret_stack
    /\ pc' = d.s.pc
    /\ block_stack' = d.s.block_stack
    /\ output' = d.s.output
    /\ heap' = d.s.heap
    /\ files' = d.s.files
    /\ status' = d.status
    /\ error' = d.error
    /\ instr_res' = res
    /\ handled' = d.handled
    /\ caught' = IF d.handled THEN caught + 1 ELSE caught
    /\ call_height' = IF Len(d.s.ret_stack) > Len(ret_stack)
                      THEN Append(call_height, [op |-> instr'.op, h |-> Len(stack),
                                                base |-> Len(d.s.stack),
                                                pc |-> pc, env |-> env])
                      ELSE Truncate(call_height, Len(d.s.ret_stack))
    /\ prev' = Snapshot
    /\ UNCHANGED <<funcs, variant, first, data, source, callers>>

\* one iteration of the loop of run: the arm of ins gave outcome o
DoPushInt ==
    \E v \in Ints :
        /\ Fetch([op |-> "PushInt", v |-> v])
        /\ Commit(Driver(PushInt(VM, v)), PushInt(VM, v).err)
DoPushStr ==
    \E str \in Strs :
        /\ Fetch([op |-> "PushStr", str |-> str])
        /\ Commit(Driver(PushStr(VM, str)), PushStr(VM, str).err)
DoLoad ==
    \E name \in Names :
        /\ Fetch([op |-> "Load", name |-> name])
        /\ Commit(Driver(Load(VM, name)), Load(VM, name).err)
DoStore ==
    \E name \in Names :
        /\ Fetch([op |-> "Store", name |-> name])
        /\ Commit(Driver(Store(VM, name)), Store(VM, name).err)
DoAssert ==
    /\ Fetch([op |-> "Assert"])
    /\ Commit(Driver(AssertInstr(VM)), AssertInstr(VM).err)
DoCall ==
    \E name \in FuncNames :
        /\ Fetch([op |-> "Call", name |-> name])
        /\ Commit(Driver(Call(VM, funcs, name)), Call(VM, funcs, name).err)
DoTailCall ==
    \E name \in TailNames :
        /\ Fetch([op |-> "TailCall", name |-> name])
        /\ Commit(Driver(TailCall(VM, funcs, name)), TailCall(VM, funcs, name).err)
DoCallValue ==
    \E argc \in Argcs :
        /\ Fetch([op |-> "CallValue", argc |-> argc])
        /\ Commit(Driver(CallValue(VM, funcs, argc)), CallValue(VM, funcs, argc).err)
DoRet ==
    /\ Fetch([op |-> "Ret"])
    /\ Commit(Driver(Ret(VM)), Ret(VM).err)
DoSetupExcept ==
    \E target \in Targets :
        /\ Fetch([op |-> "SetupExcept", target |-> target])
        /\ Commit(Driver(SetupExcept(VM, target)), SetupExcept(VM, target).err)
DoPopBlock ==
    /\ Fetch([op |-> "PopBlock"])
    /\ Commit(Driver(PopBlock(VM)), PopBlock(VM).err)
DoRaise ==
    \E kind \in ErrorKinds :
        /\ Fetch([op |-> "Raise", kind |-> kind])
        /\ Commit(Driver(Raise(VM, kind)), Raise(VM, kind).err)

\* the loop condition `pc < code.len()` fails: run returns Ok(())
RunReturnsOk ==
    /\ status = "running"
    /\ pc >= code_len
    /\ status' = "Ok"
    /\ instr' = NoInstr
    /\ instr_res' = NoError
    /\ handled' = FALSE
    /\ prev' = Snapshot
    /\ UNCHANGED <<code, funcs, stack, globals, env, env_stack, ret_stack, pc, block_stack,
                   output, heap, error, caught, call_height, variant, first, data, source,
                   files, callers>>

Next ==
    \/ DoPushInt
    \/ DoPushStr
    \/ DoLoad
    \/ DoStore
    \/ DoAssert
    \/ DoCall
    \/ DoTailCall
    \/ DoCallValue
    \/ DoRet
    \/ DoSetupExcept
    \/ DoPopBlock
    \/ DoRaise
    \/ RunReturnsOk

Spec == Init /\ [][Next]_vars

(* ---------------- a Call/Ret program and its TailCall twin --------------- *)

(* run is called on a program whose last function ends with `Call f; Ret`, *)
(* and then on the same program with that ending replaced by `TailCall f`. *)

\* the match on code[pc]
Exec(s, fs, ins) ==
    CASE ins.op = "PushInt" -> PushInt(s, ins.v)
      [] ins.op = "PushStr" -> PushStr(s, ins.str)
      [] ins.op = "Load" -> Load(s, ins.name)
      [] ins.op = "Store" -> Store(s, ins.name)
      [] ins.op = "Assert" -> AssertInstr(s)
      [] ins.op = "Call" -> Call(s, fs, ins.name)
      [] ins.op = "TailCall" -> TailCall(s, fs, ins.name)
      [] ins.op = "CallValue" -> CallValue(s, fs, ins.argc)
      [] ins.op = "Pop" -> Pop(s)
      [] ins.op = "Ret" -> Ret(s)
      [] ins.op = "Emit" -> Emit(s)
      [] ins.op = "Halt" -> Halt(s, code_len)
      [] ins.op = "SetupExcept" -> SetupExcept(s, ins.target)
      [] ins.op = "PopBlock" -> PopBlock(s)
      [] ins.op = "Raise" -> Raise(s, ins.kind)

\* a Vec as the function on 0 .. len - 1
ZeroBased(seq) == [i \in 0..(Len(seq) - 1) |-> seq[i + 1]]

\* the Call/Ret program: the top level calls g(1) and emits what it returns;
\* g(x) starts with `guard`, then ends with `Call f; Ret` on the argument 2;
\* f(x) is `body1; body2`; the handler code is `handler; Emit; Halt`
TailProgram(handler, body1, body2, guard) ==
    ZeroBased(<<
        [op |-> "PushInt", v |-> 1],
        [op |-> "Call", name |-> "g"],
        [op |-> "Emit"],
        [op |-> "Halt"],
        handler,
        [op |-> "Emit"],
        [op |-> "Halt"],
        body1,
        body2,
        guard,
        [op |-> "PushInt", v |-> 2],
        [op |-> "Call", name |-> "f"],
        [op |-> "Ret"] >>)

TailFuncs ==
    [f |-> [params |-> <<"x">>, address |-> 7],
     g |-> [params |-> <<"x">>, address |-> 9]]

TailPrograms ==
    { TailProgram(handler, body1, body2, guard) :
        handler \in {[op |-> "Load", name |-> "x"], [op |-> "Load", name |-> "current_dir"],
                     [op |-> "Pop"]},
        body1 \in {[op |-> "PushStr", str |-> "boom"], [op |-> "Load", name |-> "x"],
                   [op |-> "PushInt", v |-> 0]},
        body2 \in {[op |-> "Raise", kind |-> "Generic"], [op |-> "Raise", kind |-> "Type"],
                   [op |-> "Ret"]},
        guard \in {[op |-> "SetupExcept", target |-> 4], [op |-> "SetupExcept", target |-> 13],
                   [op |-> "Pop"], [op |-> "Load", name |-> "x"]} }

\* the twin of program c: its final `Call f; Ret` replaced by `TailCall f`
TailVariant(c) ==
    LET n == Cardinality(DOMAIN c)
    IN [i \in 0..(n - 2) |->
           IF i = n - 2 THEN [op |-> "TailCall", name |-> c[i].name] ELSE c[i]]

InitTail ==
    /\ code \in TailPrograms
    /\ funcs = TailFuncs
    /\ stack = << >>
    /\ globals = SeedGlobals
    /\ env = EmptyMap
    /\ env_stack = << >>
    /\ ret_stack = << >>
    /\ pc = 0
    /\ block_stack = << >>
    /\ output = << >>
    /\ heap = << >>
    /\ status = "running"
    /\ error = NoError
    /\ instr = NoInstr
    /\ instr_res = NoError
    /\ handled = FALSE
    /\ caught = 0
    /\ call_height = << >>
    /\ files = NoFiles
    /\ prev = Snapshot
    /\ variant = "CallRet"
    /\ first = NoRun
    /\ data = << >>
    /\ source = NoSource
    /\ callers = NoCallers

\* one iteration of the loop of run on the program in code
TailStep ==
    /\ Fetch(code[pc])
    /\ Commit(Driver(Exec(VM, funcs, code[pc])), Exec(VM, funcs, code[pc]).err)

\* the run of the Call/Ret program is over: what it produced is kept, and run
\* is called on the TailCall twin
RunTailVariant ==
    /\ variant = "CallRet"
    /\ status # "running"
    /\ first' = [status |-> status, error |-> error, output |-> output]
    /\ variant' = "TailCall"
    /\ code' = TailVariant(code)
    /\ stack' = << >>
    /\ globals' = SeedGlobals
    /\ env' = EmptyMap
    /\ env_stack' = << >>
    /\ ret_stack' = << >>
    /\ pc' = 0
    /\ block_stack' = << >>
    /\ output' = << >>
    /\ heap' = << >>
    /\ status' = "running"
    /\ error' = NoError
    /\ instr' = NoInstr
    /\ instr_res' = NoError
    /\ handled' = FALSE
    /\ caught' = 0
    /\ call_height' = << >>
    /\ prev' = Snapshot
    /\ UNCHANGED <<funcs, data, source, files, callers>>

NextTail ==
    \/ TailStep
    \/ RunReturnsOk
    \/ RunTailVariant

SpecTail == InitTail /\ [][NextTail]_vars

(* ------------------------------ aggregates ------------------------------ *)

(* Value::List, Value::Dict and Value::FrozenDict hold an Rc: here the      *)
(* address p of a cell of heap.  Two values with the same p are aliases of  *)
(* one aggregate.  A cell is [kind, items] for a Vec and [kind, map] for a  *)
(* HashMap.                                                                 *)
ListV(p) == [t |-> "List", p |-> p]
DictV(p) == [t |-> "Dict", p |-> p]
FrozenDictV(p) == [t |-> "FrozenDict", p |-> p]

ListCell(items) == [kind |-> "List", items |-> items]
DictCell(map) == [kind |-> "Dict", map |-> map]
FrozenDictCell(map) == [kind |-> "FrozenDict", map |-> map]

FrozenWriteError == [k |-> "FrozenWriteError"]

\* Rc::new(cell): the new cell gets the next address
Alloc(s, cell) == [s EXCEPT !.heap = Append(@, cell)]
NewAddress(s) == Len(s.heap) + 1

\* the orders in which the n elements of S can come
Perms(S) ==
    {f \in [1..Cardinality(S) -> S] : \A i, j \in 1..Cardinality(S) : f[i] = f[j] => i = j}

\* HashMap::iter: the keys of a map come in an order the program does not choose
KeyOrders(cell) == IF cell.kind = "List" THEN {<< >>} ELSE Perms(DOMAIN cell.map)

\* one iteration order for every cell of heap h
RECURSIVE Orders(_)
Orders(h) ==
    IF h = << >> THEN {<< >>}
    ELSE {Append(o, k) : o \in Orders(Front(h)), k \in KeyOrders(Top(h))}

\* Vec<String>::join(", ")
RECURSIVE join(_)
join(strs) ==
    IF strs = << >> THEN ""
    ELSE IF Len(strs) = 1 THEN strs[1]
    ELSE strs[1] \o ", " \o join(Tail(strs))

RECURSIVE helper(_, _, _, _, _)
RECURSIVE helper_each(_, _, _, _, _)

\* `.iter().map(|v| helper(v, seen)).collect()`: helper on each entry in turn,
\* every call seeing the addresses the calls before it inserted
helper_each(h, ord, entries, seen, d) ==
    IF entries = << >> THEN [strs |-> << >>, seen |-> seen, cut |-> FALSE]
    ELSE LET one == helper(h, ord, Head(entries).v, seen, d)
             rest == helper_each(h, ord, Tail(entries), one.seen, d)
         IN [strs |-> <<Head(entries).k \o one.str>> \o rest.strs,
             seen |-> rest.seen, cut |-> one.cut \/ rest.cut]

\* the elements of a list cell, and the `key: ` entries of a map cell in order keys
ListEntries(cell) == [i \in 1..Len(cell.items) |-> [k |-> "", v |-> cell.items[i]]]
MapEntries(cell, keys) == [i \in 1..Len(keys) |-> [k |-> keys[i] \o ": ", v |-> cell.map[keys[i]]]]

\* helper altered: an aggregate is printed again whether or not it was seen
helper_without_seen(h, ord, val, seen, d) ==
    CASE val.t = "Int" -> [str |-> IntToString(val.i), seen |-> seen, cut |-> FALSE]
      [] val.t = "Str" -> [str |-> val.s, seen |-> seen, cut |-> FALSE]
      [] val.t = "Bool" -> [str |-> (IF val.b THEN "true" ELSE "false"), seen |-> seen, cut |-> FALSE]
      [] val.t = "None" -> [str |-> "", seen |-> seen, cut |-> FALSE]
      [] val.t = "List" ->
             IF d = 0 THEN [str |-> "", seen |-> seen, cut |-> TRUE]
             ELSE LET r == helper_each(h, ord, ListEntries(h[val.p]), seen \cup {val.p}, d - 1)
                  IN [str |-> "[" \o join(r.strs) \o "]", seen |-> r.seen, cut |-> r.cut]
      [] val.t \in {"Dict", "FrozenDict"} ->
             IF d = 0 THEN [str |-> "", seen |-> seen, cut |-> TRUE]
             ELSE LET r == helper_each(h, ord, MapEntries(h[val.p], ord[val.p]),
                                       seen \cup {val.p}, d - 1)
                  IN [str |-> "{" \o join(r.strs) \o "}", seen |-> r.seen, cut |-> r.cut]

\* fn helper of Value::to_string.  d is the number of nested calls still
\* followed: a call on an aggregate at d = 0 is not followed and reports cut.
helper(h, ord, val, seen, d) ==
    CASE val.t = "Int" -> [str |-> IntToString(val.i), seen |-> seen, cut |-> FALSE]
      [] val.t = "Str" -> [str |-> val.s, seen |-> seen, cut |-> FALSE]
      [] val.t = "Bool" -> [str |-> (IF val.b THEN "true" ELSE "false"), seen |-> seen, cut |-> FALSE]
      [] val.t = "None" -> [str |-> "", seen |-> seen, cut |-> FALSE]
      [] val.t = "List" ->
             IF val.p \in seen THEN [str |-> "[...]", seen |-> seen, cut |-> FALSE]
             ELSE IF d = 0 THEN [str |-> "", seen |-> seen, cut |-> TRUE]
             ELSE LET r == helper_each(h, ord, ListEntries(h[val.p]), seen \cup {val.p}, d - 1)
                  IN [str |-> "[" \o join(r.strs) \o "]", seen |-> r.seen, cut |-> r.cut]
      [] val.t \in {"Dict", "FrozenDict"} ->
             IF val.p \in seen THEN [str |-> "{...}", seen |-> seen, cut |-> FALSE]
             ELSE IF d = 0 THEN [str |-> "", seen |-> seen, cut |-> TRUE]
             ELSE LET r == helper_each(h, ord, MapEntries(h[val.p], ord[val.p]),
                                       seen \cup {val.p}, d - 1)
                  IN [str |-> "{" \o join(r.strs) \o "}", seen |-> r.seen, cut |-> r.cut]

\* Value::to_string on any value: `helper(self, &mut HashSet::new())`, followed
\* through one more level of nesting than there are cells
ValueToString(h, ord, v) == helper(h, ord, v, {}, Len(h) + 1)

\* `s.chars()`: the characters of the strings that occur in the programs
Chars(str) ==
    CASE str = "" -> << >>
      [] str = "a" -> <<"a">>
      [] str = "b" -> <<"b">>
      [] str = "ab" -> <<"a", "b">>
      [] str = "abc" -> <<"a", "b", "c">>
      [] str = "1" -> <<"1">>
      [] str = "-1" -> <<"-", "1">>
      [] str = "+1" -> <<"+", "1">>
      [] str = "1a" -> <<"1", "a">>
      [] str = "99" -> <<"9", "9">>

\* `chars.iter().collect::<String>()`
RECURSIVE FromChars(_)
FromChars(chars) == IF chars = << >> THEN "" ELSE Head(chars) \o FromChars(Tail(chars))

\* `c as u32` and `b as char` for the characters of those strings; any other
\* character is written as its escape
CharCode(c) ==
    CASE c = "a" -> 97 [] c = "b" -> 98 [] c = "c" -> 99 [] c = "r" -> 114
      [] c = "+" -> 43 [] c = "-" -> 45 [] c = "1" -> 49 [] c = "9" -> 57
CodeChar(b) ==
    CASE b = 97 -> "a" [] b = 98 -> "b" [] b = 99 -> "c" [] b = 114 -> "r"
      [] b = 43 -> "+" [] b = 45 -> "-" [] b = 49 -> "1" [] b = 57 -> "9"
      [] OTHER -> "\\u{" \o ToBase(b, 16) \o "}"

MinInt == -(2 ^ (IntBits - 1))
MaxInt == (2 ^ (IntBits - 1)) - 1

\* the machine integer that an integer n wraps to
Wrap(n) == ((n - MinInt) % (2 ^ IntBits)) + MinInt

\* `s.parse::<i64>()`: an optional sign, then one or more decimal digits, and
\* a value that fits the machine integer
parse(str) ==
    LET chars == Chars(str)
        signed == chars # << >> /\ Head(chars) \in {"+", "-"}
        digits == IF signed THEN Tail(chars) ELSE chars
        DigitOf(c) == CASE c = "0" -> 0 [] c = "1" -> 1 [] c = "2" -> 2 [] c = "3" -> 3
                        [] c = "4" -> 4 [] c = "5" -> 5 [] c = "6" -> 6 [] c = "7" -> 7
                        [] c = "8" -> 8 [] c = "9" -> 9 [] OTHER -> -1
        magnitude[i \in 0..Len(digits)] ==
            IF i = 0 THEN 0 ELSE (10 * magnitude[i - 1]) + DigitOf(digits[i])
        value == IF signed /\ Head(chars) = "-" THEN -magnitude[Len(digits)]
                 ELSE magnitude[Len(digits)]
    IN IF digits = << >> \/ \E i \in 1..Len(digits) : DigitOf(digits[i]) < 0
       THEN [ok |-> FALSE]
       ELSE IF value < MinInt \/ value > MaxInt THEN [ok |-> FALSE]
       ELSE [ok |-> TRUE, v |-> value]

\* as_int altered: a Str that is not an integer counts as 0
as_int_lenient(h, v) ==
    CASE v.t = "Int" -> [ok |-> TRUE, v |-> v.i]
      [] v.t = "Str" -> (IF parse(v.s).ok THEN parse(v.s) ELSE [ok |-> TRUE, v |-> 0])
      [] v.t = "Bool" -> [ok |-> TRUE, v |-> IF v.b THEN 1 ELSE 0]
      [] v.t = "List" -> [ok |-> TRUE, v |-> Len(h[v.p].items)]
      [] v.t \in {"Dict", "FrozenDict"} -> [ok |-> TRUE, v |-> Cardinality(DOMAIN h[v.p].map)]
      [] v.t = "None" -> [ok |-> TRUE, v |-> 0]

\* Value::as_int: Ok(v), or Err(TypeError) for a Str that does not parse
as_int(h, v) ==
    CASE v.t = "Int" -> [ok |-> TRUE, v |-> v.i]
      [] v.t = "Str" ->
             (IF parse(v.s).ok THEN parse(v.s)
              ELSE [ok |-> FALSE,
                    err |-> TypeError("Invalid literal for int(): '" \o v.s \o "'")])
      [] v.t = "Bool" -> [ok |-> TRUE, v |-> IF v.b THEN 1 ELSE 0]
      [] v.t = "List" -> [ok |-> TRUE, v |-> Len(h[v.p].items)]
      [] v.t \in {"Dict", "FrozenDict"} -> [ok |-> TRUE, v |-> Cardinality(DOMAIN h[v.p].map)]
      [] v.t = "None" -> [ok |-> TRUE, v |-> 0]

\* Instr::BuildList
BuildList(s, n) ==
    IF Len(s.stack) < n THEN ReturnErr([s EXCEPT !.stack = << >>], Underflow)
    ELSE Completed(Push(Alloc(Drop(s, n), ListCell(TopN(s.stack, n))), ListV(NewAddress(s))))

\* the loop of Instr::BuildDict over the pairs still on the stack, topmost
\* pair first: `map.insert(key, val)` replaces what a pair above has inserted
RECURSIVE InsertPairs(_, _, _, _)
InsertPairs(h, ord, pairs, map) ==
    IF pairs = << >> THEN map
    ELSE LET n == Len(pairs)
         IN InsertPairs(h, ord, SubSeq(pairs, 1, n - 2),
                        Insert(map, ValueToString(h, ord, pairs[n - 1]).str, pairs[n]))

\* Instr::BuildDict
BuildDict(s, ord, n) ==
    IF Len(s.stack) < 2 * n THEN ReturnErr([s EXCEPT !.stack = << >>], Underflow)
    ELSE Completed(Push(Alloc(Drop(s, 2 * n),
                              DictCell(InsertPairs(s.heap, ord, TopN(s.stack, 2 * n), EmptyMap))),
                        DictV(NewAddress(s))))

\* Add altered: List + List pushes a new list and leaves both operands alone
AddCopying(s, nd) ==
    IF Len(s.stack) < 2 THEN ReturnErr([s EXCEPT !.stack = << >>], Underflow)
    ELSE LET b == Top(s.stack)
             a == s.stack[Len(s.stack) - 1]
             r == Drop(s, 2)
         IN CASE a.t = "Str" /\ b.t = "Str" -> Completed(Push(r, StrV(a.s \o b.s)))
              [] a.t = "Str" /\ b.t # "Str" ->
                     Completed(Push(r, StrV(a.s \o ValueToString(s.heap, nd.ord, b).str)))
              [] a.t # "Str" /\ b.t = "Str" ->
                     Completed(Push(r, StrV(ValueToString(s.heap, nd.ord, a).str \o b.s)))
              [] a.t = "List" /\ b.t = "List" ->
                     Completed(Push(Alloc(r, ListCell(s.heap[a.p].items \o s.heap[b.p].items)),
                                    ListV(NewAddress(r))))
              [] OTHER ->
                     LET sum == as_int(s.heap, a).v + as_int(s.heap, b).v
                     IN IF sum \in MinInt..MaxInt THEN Completed(Push(r, IntV(sum)))
                        ELSE IF nd.debug THEN Panicked(r)
                        ELSE Completed(Push(r, IntV(Wrap(sum))))

\* Instr::Add.  In the List + List arm `la.borrow_mut()` is live while
\* `lb.borrow()` is taken: when both are one RefCell the borrow panics.
Add(s, nd) ==
    IF Len(s.stack) < 2 THEN ReturnErr([s EXCEPT !.stack = << >>], Underflow)
    ELSE LET b == Top(s.stack)
             a == s.stack[Len(s.stack) - 1]
             r == Drop(s, 2)
         IN CASE a.t = "Str" /\ b.t = "Str" -> Completed(Push(r, StrV(a.s \o b.s)))
              [] a.t = "Str" /\ b.t # "Str" ->
                     Completed(Push(r, StrV(a.s \o ValueToString(s.heap, nd.ord, b).str)))
              [] a.t # "Str" /\ b.t = "Str" ->
                     Completed(Push(r, StrV(ValueToString(s.heap, nd.ord, a).str \o b.s)))
              [] a.t = "List" /\ b.t = "List" ->
                     IF a.p = b.p THEN Panicked(r)
                     ELSE Completed(Push([r EXCEPT !.heap[a.p].items = @ \o s.heap[b.p].items], a))
              [] OTHER ->
                     LET sum == as_int(s.heap, a).v + as_int(s.heap, b).v
                     IN IF sum \in MinInt..MaxInt THEN Completed(Push(r, IntV(sum)))
                        ELSE IF nd.debug THEN Panicked(r)
                        ELSE Completed(Push(r, IntV(Wrap(sum))))

\* `if idx >= l.len() { l.resize(idx + 1, Int(0)) }; l[idx] = val`
SetAt(items, idx, val) ==
    [k \in 1..Max(Len(items), idx + 1) |->
        IF k = idx + 1 THEN val ELSE IF k <= Len(items) THEN items[k] ELSE IntV(0)]

\* Instr::StoreIndex.  A negative list index becomes a huge usize: resize panics.
StoreIndex(s) ==
    IF Len(s.stack) < 3 THEN ReturnErr([s EXCEPT !.stack = << >>], Underflow)
    ELSE LET val == Top(s.stack)
             idx == s.stack[Len(s.stack) - 1]
             base == s.stack[Len(s.stack) - 2]
             r == Drop(s, 3)
         IN CASE base.t = "List" /\ idx.t = "Int" ->
                     IF idx.i < 0 THEN Panicked(r)
                     ELSE Completed([r EXCEPT !.heap[base.p].items = SetAt(@, idx.i, val)])
              [] base.t = "Dict" /\ idx.t = "Str" ->
                     Completed([r EXCEPT !.heap[base.p].map = Insert(@, idx.s, val)])
              [] base.t = "Dict" /\ idx.t = "Int" ->
                     Completed([r EXCEPT !.heap[base.p].map = Insert(@, IntToString(idx.i), val)])
              [] base.t = "FrozenDict" -> BreakErr(r, FrozenWriteError)
              [] OTHER -> Completed(r)

\* StoreAttr altered: a FrozenDict base is passed over like any other non-Dict
StoreAttrPassingFrozen(s, attr) ==
    IF Len(s.stack) < 2 THEN ReturnErr([s EXCEPT !.stack = << >>], Underflow)
    ELSE LET val == Top(s.stack)
             base == s.stack[Len(s.stack) - 1]
             r == Drop(s, 2)
         IN CASE base.t = "Dict" ->
                     Completed([r EXCEPT !.heap[base.p].map = Insert(@, attr, val)])
              [] OTHER -> Completed(r)

KeyError(key) == [k |-> "KeyError", key |-> key]

\* Instr::Attr
Attr(s, ord, attr) ==
    IF s.stack = << >> THEN ReturnErr(s, Underflow)
    ELSE LET base == Top(s.stack)
             r == Drop(s, 1)
         IN IF base.t \in {"Dict", "FrozenDict"}
            THEN IF attr \in DOMAIN s.heap[base.p].map
                 THEN Completed(Push(r, s.heap[base.p].map[attr]))
                 ELSE BreakErr(r, KeyError(attr))
            ELSE BreakErr(r, TypeError(ValueToString(s.heap, ord, base).str
                                          \o " has no attribute '" \o attr \o "'"))

\* Instr::StoreAttr
StoreAttr(s, attr) ==
    IF Len(s.stack) < 2 THEN ReturnErr([s EXCEPT !.stack = << >>], Underflow)
    ELSE LET val == Top(s.stack)
             base == s.stack[Len(s.stack) - 1]
             r == Drop(s, 2)
         IN CASE base.t = "Dict" ->
                     Completed([r EXCEPT !.heap[base.p].map = Insert(@, attr, val)])
              [] base.t = "FrozenDict" -> BreakErr(r, FrozenWriteError)
              [] OTHER -> Completed(r)

\* freeze altered: the FrozenDict is the cell of the source dict itself
freeze_aliasing(h, args) ==
    IF Len(args) = 1 /\ args[1].t = "Dict"
    THEN [ok |-> TRUE, val |-> FrozenDictV(args[1].p),
          heap |-> [h EXCEPT ![args[1].p] = FrozenDictCell(@.map)]]
    ELSE IF Len(args) = 1 /\ args[1].t = "FrozenDict"
    THEN [ok |-> TRUE, val |-> args[1], heap |-> h]
    ELSE [ok |-> FALSE, err |-> TypeError("freeze() expects a dict (type mismatch)"), heap |-> h]

\* call_builtin, "freeze": `map.borrow().clone()` in a new Rc
freeze(h, args) ==
    IF Len(args) = 1 /\ args[1].t = "Dict"
    THEN [ok |-> TRUE, val |-> FrozenDictV(Len(h) + 1),
          heap |-> Append(h, FrozenDictCell(h[args[1].p].map))]
    ELSE IF Len(args) = 1 /\ args[1].t = "FrozenDict"
    THEN [ok |-> TRUE, val |-> args[1], heap |-> h]
    ELSE [ok |-> FALSE, err |-> TypeError("freeze() expects a dict (type mismatch)"), heap |-> h]

(* call_builtin (vm/builtins.rs).  w is what the call can change: the heap  *)
(* and the statics NEXT_FD and FILE_HANDLES (files).  nd is what the caller *)
(* does not decide: nd.debug, whether the build checks integer overflow;    *)
(* nd.os, what the operating system answers (open_ok: the path can be       *)
(* opened, io_ok: the read or write succeeds, content: what the file        *)
(* holds).  The result is Ok(val) or Err(err) with the heap and the files   *)
(* after the call; err is Abort when the process dies in the call.          *)
Abort == [k |-> "panic"]
ValueError(m) == [k |-> "ValueError", msg |-> m]
Returns(w, v) == [ok |-> TRUE, val |-> v, heap |-> w.heap, files |-> w.files]
Fails(w, e) == [ok |-> FALSE, err |-> e, heap |-> w.heap, files |-> w.files]

\* binary altered: a width that is not positive is taken as no width
binary_any_width(w, args, debug) ==
    IF Len(args) \in {1, 2} /\ \A i \in 1..Len(args) : args[i].t = "Int"
    THEN Returns(w, StrV(ToBase(args[1].i % (2 ^ IntBits), 2)))
    ELSE Fails(w, TypeError("binary() expects one or two integers (arity mismatch)"))

\* call_builtin, "binary".  `(1_i64 << width) - 1` overflows for a width of
\* the integer's bits or more, and for one bit less in the subtraction: a
\* debug build panics, a release build shifts by width modulo the bits and
\* wraps.  The digits are padded with zeros to width.
binary(w, args, debug) ==
    IF Len(args) = 1 /\ args[1].t = "Int"
    THEN Returns(w, StrV(ToBase(args[1].i % (2 ^ IntBits), 2)))
    ELSE IF Len(args) = 2 /\ args[1].t = "Int" /\ args[2].t = "Int"
    THEN LET n == args[1].i
             width == args[2].i
             digits == ToBase(n % (2 ^ (width % IntBits)), 2)
             Padded[k \in 0..width] ==
                 IF k <= Len(digits) THEN digits ELSE "0" \o Padded[k - 1]
         IN IF width <= 0 THEN Fails(w, ValueError("binary() width must be positive"))
            ELSE IF width >= IntBits - 1 /\ debug THEN Fails(w, Abort)
            ELSE Returns(w, StrV(Padded[width]))
    ELSE Fails(w, TypeError("binary() expects one or two integers (arity mismatch)"))

\* `*handle as i32`: the low bits of the integer, as a signed handle
ToFd(i) == ((i + (2 ^ (FdBits - 1))) % (2 ^ FdBits)) - (2 ^ (FdBits - 1))

\* call_builtin, "file_open"
file_open(w, args, os) ==
    IF Len(args) = 2 /\ args[1].t = "Str" /\ args[2].t = "Str"
    THEN LET mode == args[2].s
             handle == w.files.next_fd
             entry == [path |-> args[1].s, binary |-> mode \in {"rb", "wb", "ab"}]
         IN IF mode \notin {"r", "rb", "w", "wb", "a", "ab"}
            THEN Fails(w, ValueError("invalid file mode"))
            ELSE IF ~os.open_ok
            THEN Fails(w, ValueError("cannot open '" \o args[1].s \o "'"))
            ELSE [ok |-> TRUE, val |-> IntV(handle), heap |-> w.heap,
                  files |-> [next_fd |-> ToFd(handle + 1),
                             table |-> Insert(w.files.table, handle, entry)]]
    ELSE Fails(w, TypeError("file_open() expects path and mode"))

\* call_builtin, "file_read"
file_read(w, args, os) ==
    IF Len(args) = 1 /\ args[1].t = "Int"
    THEN LET fd == ToFd(args[1].i)
             bytes == [i \in 1..Len(Chars(os.content)) |-> IntV(CharCode(Chars(os.content)[i]))]
         IN IF fd \notin DOMAIN w.files.table
            THEN Fails(w, ValueError("invalid file handle"))
            ELSE IF ~os.io_ok THEN Fails(w, ValueError("io error"))
            ELSE IF w.files.table[fd].binary
            THEN [ok |-> TRUE, val |-> ListV(Len(w.heap) + 1),
                  heap |-> Append(w.heap, ListCell(bytes)), files |-> w.files]
            ELSE Returns(w, StrV(os.content))
    ELSE Fails(w, TypeError("file_read() expects a handle"))

\* call_builtin, "file_write"
file_write(w, args, os) ==
    IF Len(args) = 2 /\ args[1].t = "Int" /\ args[2].t \in {"Str", "List"}
    THEN LET fd == ToFd(args[1].i)
             text == args[2].t = "Str"
             items == IF text THEN << >> ELSE w.heap[args[2].p].items
         IN IF fd \notin DOMAIN w.files.table
            THEN Fails(w, ValueError("invalid file handle"))
            ELSE IF text /\ w.files.table[fd].binary
            THEN Fails(w, TypeError("file_write() binary handle expects list"))
            ELSE IF ~text /\ ~w.files.table[fd].binary
            THEN Fails(w, TypeError("file_write() text handle expects string"))
            ELSE IF ~text /\ \E i \in 1..Len(items) :
                                 ~(items[i].t = "Int" /\ items[i].i >= 0 /\ items[i].i <= 255)
            THEN Fails(w, TypeError("file_write() expects bytes 0-255"))
            ELSE IF ~os.io_ok THEN Fails(w, ValueError("io error"))
            ELSE Returns(w, IntV(IF text THEN Len(args[2].s) ELSE Len(items)))
    ELSE Fails(w, TypeError("file_write() expects handle and data"))

\* call_builtin, "file_close"
file_close(w, args) ==
    IF Len(args) = 1 /\ args[1].t = "Int"
    THEN LET fd == ToFd(args[1].i)
         IN IF fd \in DOMAIN w.files.table
            THEN [ok |-> TRUE, val |-> NoneV, heap |-> w.heap,
                  files |-> [w.files EXCEPT
                                !.table = [h \in DOMAIN @ \ {fd} |-> @[h]]]]
            ELSE Fails(w, ValueError("invalid file handle"))
    ELSE Fails(w, TypeError("file_close() expects handle"))

\* inner_args altered: the list itself is the one argument
inner_args_nested(h, list) == <<list>>

\* call_builtin, "call_builtin": `list.borrow().clone()`
inner_args(h, list) == h[list.p].items

\* fn call_builtin; depth is the number of nested calls that a list of the
\* heap can still ask for before one list repeats (the recursion then never
\* ends and the stack overflows)
RECURSIVE call_builtin_at(_, _, _, _, _)
call_builtin_at(w, nd, name, args, depth) ==
    LET One(type) == Len(args) = 1 /\ args[1].t = type
        fr == freeze(w.heap, args)
    IN CASE name = "chr" ->
                IF One("Int") THEN Returns(w, StrV(CodeChar(args[1].i % 256)))
                ELSE Fails(w, TypeError("chr() expects one integer"))
         [] name = "ascii" ->
                IF One("Str") /\ Len(args[1].s) = 1
                THEN Returns(w, IntV(CharCode(args[1].s)))
                ELSE Fails(w, TypeError("ascii() expects a single character (arity mismatch)"))
         [] name = "hex" ->
                IF One("Int") THEN Returns(w, StrV(ToBase(args[1].i % (2 ^ IntBits), 16)))
                ELSE Fails(w, TypeError("hex() expects one integer (arity mismatch)"))
         [] name = "binary" -> binary(w, args, nd.debug)
         [] name = "length" ->
                IF Len(args) # 1
                THEN Fails(w, TypeError("length() expects one positional argument (arity mismatch)"))
                ELSE IF args[1].t = "List" THEN Returns(w, IntV(Len(w.heap[args[1].p].items)))
                ELSE IF args[1].t = "Str" THEN Returns(w, IntV(Len(args[1].s)))
                ELSE Fails(w, TypeError("length() expects list or string (type mismatch)"))
         [] name = "freeze" ->
                IF fr.ok THEN [ok |-> TRUE, val |-> fr.val, heap |-> fr.heap, files |-> w.files]
                ELSE Fails(w, fr.err)
         [] name = "panic" ->
                IF One("Str") THEN Fails(w, [k |-> "Raised", msg |-> args[1].s])
                ELSE Fails(w, TypeError("panic() expects a string (type mismatch)"))
         [] name = "raise" ->
                IF One("Str") THEN Fails(w, Raise([stack |-> <<args[1]>>], "Generic").err)
                ELSE Fails(w, TypeError("raise() expects a string (type mismatch)"))
         [] name = "read_file" ->
                IF One("Str")
                THEN IF nd.os.open_ok /\ nd.os.io_ok THEN Returns(w, StrV(nd.os.content))
                     ELSE Fails(w, [k |-> "ModuleImportError",
                                    msg |-> "failed to read '" \o args[1].s \o "'"])
                ELSE Fails(w, TypeError("read_file() expects a file path"))
         [] name = "file_open" -> file_open(w, args, nd.os)
         [] name = "file_read" -> file_read(w, args, nd.os)
         [] name = "file_write" -> file_write(w, args, nd.os)
         [] name = "file_close" -> file_close(w, args)
         [] name = "file_exists" ->
                IF One("Str") THEN Returns(w, BoolV(nd.os.open_ok))
                ELSE Fails(w, TypeError("file_exists() expects a path"))
         [] name = "call_builtin" ->
                IF Len(args) = 2 /\ args[1].t = "Str" /\ args[2].t = "List"
                THEN IF depth = 0 THEN Fails(w, Abort)
                     ELSE call_builtin_at(w, nd, args[1].s, inner_args(w.heap, args[2]),
                                          depth - 1)
                ELSE Fails(w, TypeError("call_builtin() expects a name and argument list"))
         [] OTHER -> Fails(w, TypeError("unknown builtin: " \o name))

call_builtin(w, nd, name, args) == call_builtin_at(w, nd, name, args, Len(w.heap) + 1)

\* Instr::CallBuiltin
CallBuiltin(s, nd, name, argc) ==
    IF Len(s.stack) < argc THEN ReturnErr([s EXCEPT !.stack = << >>], Underflow)
    ELSE LET res == call_builtin([heap |-> s.heap, files |-> s.files], nd, name,
                                 TopN(s.stack, argc))
             r == Drop(s, argc)
         IN IF res.ok
            THEN Completed(Push([r EXCEPT !.heap = res.heap, !.files = res.files], res.val))
            ELSE IF res.err = Abort THEN Panicked(r)
            ELSE BreakErr([r EXCEPT !.files = res.files], res.err)

(* ------------------------------ arithmetic ------------------------------ *)

ZeroDivisionError == [k |-> "ZeroDivisionError"]

Abs(i) == IF i < 0 THEN -i ELSE i

\* `a / b` on machine integers, b # 0 and not MinInt / -1: rounds toward zero
TruncDiv(a, b) == IF (a < 0) = (b < 0) THEN Abs(a) \div Abs(b) ELSE -(Abs(a) \div Abs(b))

\* `a % b` on machine integers: the sign of a
TruncRem(a, b) == a - b * TruncDiv(a, b)

\* Instr::Div.  b is tested before a is popped; `a / b` panics on overflow,
\* that is for MinInt / -1.
Div(s) ==
    IF s.stack = << >> THEN ReturnErr(s, Underflow)
    ELSE LET b == as_int(s.heap, Top(s.stack))
             r == Drop(s, 1)
         IN IF ~b.ok THEN BreakErr(r, b.err)
            ELSE IF b.v = 0 THEN BreakErr(r, ZeroDivisionError)
            ELSE IF r.stack = << >> THEN ReturnErr(r, Underflow)
            ELSE LET a == as_int(s.heap, Top(r.stack))
                 IN IF ~a.ok THEN BreakErr(Drop(r, 1), a.err)
                    ELSE IF a.v = MinInt /\ b.v = -1 THEN Panicked(Drop(r, 1))
                    ELSE Completed(Push(Drop(r, 1), IntV(TruncDiv(a.v, b.v))))

\* Instr::Mod.  `a % b` panics on overflow as `a / b` does.
Mod(s) ==
    IF s.stack = << >> THEN ReturnErr(s, Underflow)
    ELSE LET b == as_int(s.heap, Top(s.stack))
             r == Drop(s, 1)
         IN IF ~b.ok THEN BreakErr(r, b.err)
            ELSE IF b.v = 0 THEN BreakErr(r, ZeroDivisionError)
            ELSE IF r.stack = << >> THEN ReturnErr(r, Underflow)
            ELSE LET a == as_int(s.heap, Top(r.stack))
                 IN IF ~a.ok THEN BreakErr(Drop(r, 1), a.err)
                    ELSE IF a.v = MinInt /\ b.v = -1 THEN Panicked(Drop(r, 1))
                    ELSE Completed(Push(Drop(r, 1), IntV(TruncRem(a.v, b.v))))

(* The handlers of the other integer instructions (vm/ops_arith.rs).  An    *)
(* operand is coerced by as_int; `?` on its error ends the handler with     *)
(* that error.  debug says whether the build checks integer overflow        *)
(* (it then panics) or wraps.                                               *)

\* bit i of the two's complement form of n
Bit(n, i) == ((n % (2 ^ IntBits)) \div (2 ^ i)) % 2

\* `a op b` of handle_sub .. handle_shr on machine integers: the result, or
\* "overflow" where a debug build panics
IntResult(op, a, b, debug) ==
    LET Bits(F(_, _)) ==
            LET sum[i \in 0..IntBits] ==
                    IF i = 0 THEN 0
                    ELSE sum[i - 1] + (F(Bit(a, i - 1), Bit(b, i - 1)) * (2 ^ (i - 1)))
            IN Wrap(sum[IntBits])
        b_u32 == b % (2 ^ IntBits)
        shift == b_u32 % IntBits
        Checked(n) == IF n \in MinInt..MaxInt THEN [ok |-> TRUE, v |-> n]
                      ELSE IF debug THEN [ok |-> FALSE] ELSE [ok |-> TRUE, v |-> Wrap(n)]
    IN CASE op = "Sub" -> Checked(a - b)
         [] op = "Mul" -> [ok |-> TRUE, v |-> IF (a * b) \in MinInt..MaxInt THEN a * b ELSE 0]
         [] op = "BAnd" -> [ok |-> TRUE, v |-> Bits(LAMBDA x, y : x * y)]
         [] op = "BOr" -> [ok |-> TRUE, v |-> Bits(LAMBDA x, y : x + y - (x * y))]
         [] op = "BXor" -> [ok |-> TRUE, v |-> Bits(LAMBDA x, y : (x + y) % 2)]
         [] op = "Shl" -> IF b_u32 >= IntBits /\ debug THEN [ok |-> FALSE]
                          ELSE [ok |-> TRUE, v |-> Wrap(a * (2 ^ shift))]
         [] op = "Shr" -> IF b_u32 >= IntBits /\ debug THEN [ok |-> FALSE]
                          ELSE [ok |-> TRUE, v |-> a \div (2 ^ shift)]

\* handle_sub, handle_mul, handle_band, handle_bor, handle_bxor, handle_shl,
\* handle_shr: `let b = pop(stack)?.as_int()?; let a = pop(stack)?.as_int()?;`
BinaryInt(s, op, debug) ==
    IF s.stack = << >> THEN ReturnErr(s, Underflow)
    ELSE LET b == as_int(s.heap, Top(s.stack))
             r == Drop(s, 1)
         IN IF ~b.ok THEN BreakErr(r, b.err)
            ELSE IF r.stack = << >> THEN ReturnErr(r, Underflow)
            ELSE LET a == as_int(s.heap, Top(r.stack))
                     res == IntResult(op, a.v, b.v, debug)
                 IN IF ~a.ok THEN BreakErr(Drop(r, 1), a.err)
                    ELSE IF ~res.ok THEN Panicked(Drop(r, 1))
                    ELSE Completed(Push(Drop(r, 1), IntV(res.v)))

\* handle_not, handle_neg: `let v = pop(stack)?.as_int()?;`
UnaryInt(s, op, debug) ==
    IF s.stack = << >> THEN ReturnErr(s, Underflow)
    ELSE LET v == as_int(s.heap, Top(s.stack))
             r == Drop(s, 1)
         IN IF ~v.ok THEN BreakErr(r, v.err)
            ELSE IF op = "Not" THEN Completed(Push(r, IntV(-v.v - 1)))
            ELSE IF v.v = MinInt THEN (IF debug THEN Panicked(r) ELSE Completed(Push(r, IntV(MinInt))))
            ELSE Completed(Push(r, IntV(-v.v)))

\* `sa < sb` on strings: the order of the bytes
RECURSIVE StrLess(_, _)
StrLess(x, y) ==
    IF y = << >> THEN FALSE
    ELSE IF x = << >> THEN TRUE
    ELSE IF Head(x) = Head(y) THEN StrLess(Tail(x), Tail(y))
    ELSE CharCode(Head(x)) < CharCode(Head(y))

\* handle_lt, handle_le, handle_gt, handle_ge: two strings are compared as
\* strings, any other pair as `a.as_int()? < b.as_int()?`
Compare(s, op) ==
    IF Len(s.stack) < 2 THEN ReturnErr([s EXCEPT !.stack = << >>], Underflow)
    ELSE LET b == Top(s.stack)
             a == s.stack[Len(s.stack) - 1]
             r == Drop(s, 2)
             ai == as_int(s.heap, a)
             bi == as_int(s.heap, b)
             Holds(less, equal) ==
                 CASE op = "Lt" -> less
                   [] op = "Le" -> less \/ equal
                   [] op = "Gt" -> ~less /\ ~equal
                   [] op = "Ge" -> ~less
         IN IF a.t = "Str" /\ b.t = "Str"
            THEN Completed(Push(r, BoolV(Holds(StrLess(Chars(a.s), Chars(b.s)), a.s = b.s))))
            ELSE IF ~ai.ok THEN BreakErr(r, ai.err)
            ELSE IF ~bi.ok THEN BreakErr(r, bi.err)
            ELSE Completed(Push(r, BoolV(Holds(ai.v < bi.v, ai.v = bi.v))))


(* -------------------------------- slices -------------------------------- *)

IndexError(m) == [k |-> "IndexError", msg |-> m]

\* Instr::PushNone
PushNone(s) == Completed(Push(s, NoneV))

\* the checks of Instr::Slice on start, end and len, in the order of the
\* code: TRUE when the slice is taken
SliceInBounds(start_i64, end_i64, len) ==
    IF start_i64 < 0 THEN FALSE
    ELSE IF end_i64 < 0 THEN FALSE
    ELSE ~(start_i64 > end_i64 \/ end_i64 > len)

\* Slice altered: an end beyond len is cut back to len
SliceClamping(s) ==
    IF Len(s.stack) < 3 THEN ReturnErr([s EXCEPT !.stack = << >>], Underflow)
    ELSE LET end_val == Top(s.stack)
             start_val == s.stack[Len(s.stack) - 1]
             base == s.stack[Len(s.stack) - 2]
             r == Drop(s, 3)
             start_i64 == as_int(s.heap, start_val).v
             seq == IF base.t = "List" THEN s.heap[base.p].items
                    ELSE IF base.t = "Str" THEN Chars(base.s) ELSE << >>
             len == Len(seq)
             end_raw == IF end_val.t = "None" THEN len ELSE as_int(s.heap, end_val).v
             end_i64 == IF end_raw > len THEN len ELSE end_raw
         IN IF base.t \notin {"List", "Str"} THEN Completed(Push(r, IntV(0)))
            ELSE IF ~SliceInBounds(start_i64, end_i64, len)
            THEN BreakErr(r, IndexError("Slice indices out of bounds!"))
            ELSE IF base.t = "List"
            THEN Completed(Push(Alloc(r, ListCell(SubSeq(seq, start_i64 + 1, end_i64))),
                                ListV(NewAddress(r))))
            ELSE Completed(Push(r, StrV(FromChars(SubSeq(seq, start_i64 + 1, end_i64)))))

\* Instr::Slice
Slice(s) ==
    IF Len(s.stack) < 3 THEN ReturnErr([s EXCEPT !.stack = << >>], Underflow)
    ELSE LET end_val == Top(s.stack)
             start_val == s.stack[Len(s.stack) - 1]
             base == s.stack[Len(s.stack) - 2]
             r == Drop(s, 3)
             start == as_int(s.heap, start_val)
             start_i64 == start.v
             seq == IF base.t = "List" THEN s.heap[base.p].items
                    ELSE IF base.t = "Str" THEN Chars(base.s) ELSE << >>
             len == Len(seq)
             end == IF end_val.t = "None" THEN [ok |-> TRUE, v |-> len]
                    ELSE as_int(s.heap, end_val)
             end_i64 == end.v
         IN IF ~start.ok THEN BreakErr(r, start.err)
            ELSE IF base.t \notin {"List", "Str"} THEN Completed(Push(r, IntV(0)))
            ELSE IF start_i64 < 0 THEN BreakErr(r, IndexError("Slice indices out of bounds!"))
            ELSE IF ~end.ok THEN BreakErr(r, end.err)
            ELSE IF ~SliceInBounds(start_i64, end_i64, len)
            THEN BreakErr(r, IndexError("Slice indices out of bounds!"))
            ELSE IF base.t = "List"
            THEN Completed(Push(Alloc(r, ListCell(SubSeq(seq, start_i64 + 1, end_i64))),
                                ListV(NewAddress(r))))
            ELSE Completed(Push(r, StrV(FromChars(SubSeq(seq, start_i64 + 1, end_i64)))))

\* Instr::Eq / handle_eq: the two operands are compared as the strings that
\* to_string gives them; ord is the order in which each map iterates
Eq(s, ord) ==
    IF Len(s.stack) < 2 THEN ReturnErr([s EXCEPT !.stack = << >>], Underflow)
    ELSE LET b == ValueToString(s.heap, ord, Top(s.stack)).str
             a == ValueToString(s.heap, ord, s.stack[Len(s.stack) - 1]).str
         IN Completed(Push(Drop(s, 2), BoolV(a = b)))

\* Instr::Ne / handle_ne
Ne(s, ord) ==
    IF Len(s.stack) < 2 THEN ReturnErr([s EXCEPT !.stack = << >>], Underflow)
    ELSE LET b == ValueToString(s.heap, ord, Top(s.stack)).str
             a == ValueToString(s.heap, ord, s.stack[Len(s.stack) - 1]).str
         IN Completed(Push(Drop(s, 2), BoolV(a # b)))

\* Instr::JumpIfFalse / handle_jump_if_false (as_bool of an aggregate: it is
\* not empty)
JumpIfFalse(s, target) ==
    IF s.stack = << >> THEN ReturnErr(s, Underflow)
    ELSE LET v == Top(s.stack)
             cond == CASE v.t = "List" -> s.heap[v.p].items # << >>
                       [] v.t \in {"Dict", "FrozenDict"} -> DOMAIN s.heap[v.p].map # {}
                       [] OTHER -> as_bool(v)
         IN IF cond THEN Completed(Drop(s, 1))
            ELSE Transferred([Drop(s, 1) EXCEPT !.pc = target])

\* what the program does not decide when ins executes on heap h: the
\* iteration order of each map (ord), whether the build checks integer
\* overflow (debug), and what the operating system answers a builtin (os)
Choices(h, ins) ==
    LET Asks(names) == ins.op = "CallBuiltin" /\ ins.name \in names \cup {"call_builtin"}
        arith == ins.op \in {"Add", "Sub", "Shl", "Shr", "Neg"} \/ Asks({"binary"})
    IN { [ord |-> o, debug |-> d, os |-> [open_ok |-> p, io_ok |-> i, content |-> c]] :
           o \in Orders(h),
           d \in IF arith THEN BOOLEAN ELSE {FALSE},
           p \in IF Asks({"file_open", "file_exists", "read_file"}) THEN BOOLEAN ELSE {TRUE},
           i \in IF Asks({"file_read", "file_write", "read_file"}) THEN BOOLEAN ELSE {TRUE},
           c \in IF Asks({"file_read", "read_file"}) THEN {"", "ab"} ELSE {""} }

\* the match on code[pc], with the arms on aggregates and integers
ExecAll(s, fs, nd, ins) ==
    CASE ins.op = "PushNone" -> PushNone(s)
      [] ins.op = "BuildList" -> BuildList(s, ins.n)
      [] ins.op = "BuildDict" -> BuildDict(s, nd.ord, ins.n)
      [] ins.op = "Add" -> Add(s, nd)
      [] ins.op \in {"Sub", "Mul", "BAnd", "BOr", "BXor", "Shl", "Shr"} ->
             BinaryInt(s, ins.op, nd.debug)
      [] ins.op = "Div" -> Div(s)
      [] ins.op = "Mod" -> Mod(s)
      [] ins.op \in {"Not", "Neg"} -> UnaryInt(s, ins.op, nd.debug)
      [] ins.op \in {"Lt", "Le", "Gt", "Ge"} -> Compare(s, ins.op)
      [] ins.op = "Slice" -> Slice(s)
      [] ins.op = "StoreIndex" -> StoreIndex(s)
      [] ins.op = "StoreAttr" -> StoreAttr(s, ins.attr)
      [] ins.op = "Attr" -> Attr(s, nd.ord, ins.attr)
      [] ins.op = "Eq" -> Eq(s, nd.ord)
      [] ins.op = "Ne" -> Ne(s, nd.ord)
      [] ins.op = "JumpIfFalse" -> JumpIfFalse(s, ins.target)
      [] ins.op = "CallBuiltin" -> CallBuiltin(s, nd, ins.name, ins.argc)
      [] OTHER -> Exec(s, fs, ins)

(* ------------------------- programs on aggregates ------------------------ *)

\* the registers of run before its first instruction, and no image
Blank ==
    /\ stack = << >>
    /\ globals = SeedGlobals
    /\ env = EmptyMap
    /\ env_stack = << >>
    /\ ret_stack = << >>
    /\ pc = 0
    /\ block_stack = << >>
    /\ output = << >>
    /\ heap = << >>
    /\ error = NoError
    /\ instr = NoInstr
    /\ instr_res = NoError
    /\ handled = FALSE
    /\ caught = 0
    /\ call_height = << >>
    /\ files = NoFiles
    /\ prev = Snapshot
    /\ variant = "none"
    /\ first = NoRun
    /\ callers = NoCallers

\* no image: run is called on a program built in memory
NoImage ==
    /\ data = << >>
    /\ source = NoSource

\* one iteration of the loop of run on the program in code; execution is
\* followed within the bounds
Step ==
    /\ status = "running"
    /\ pc < code_len
    /\ Len(stack) <= 2 * MaxStack
    /\ Len(env_stack) <= MaxDepth
    /\ instr' = code[pc]
    /\ UNCHANGED code
    /\ \E nd \in Choices(heap, code[pc]) :
           Commit(Driver(ExecAll(VM, funcs, nd, code[pc])), ExecAll(VM, funcs, nd, code[pc]).err)

NextRun ==
    \/ Step
    \/ RunReturnsOk

(* run on programs that build aggregates: the first instructions bind the   *)
(* globals l = [1, 2], m = [3], d = {a: 1} and fz = freeze(d); the CodeLen  *)
(* instructions after them are any instructions of HeapAlphabet.            *)
Prologue ==
    << [op |-> "PushInt", v |-> 1],
       [op |-> "PushInt", v |-> 2],
       [op |-> "BuildList", n |-> 2],
       [op |-> "Store", name |-> "l"],
       [op |-> "PushInt", v |-> 3],
       [op |-> "BuildList", n |-> 1],
       [op |-> "Store", name |-> "m"],
       [op |-> "PushStr", str |-> "a"],
       [op |-> "PushInt", v |-> 1],
       [op |-> "BuildDict", n |-> 1],
       [op |-> "Store", name |-> "d"],
       [op |-> "Load", name |-> "d"],
       [op |-> "CallBuiltin", name |-> "freeze", argc |-> 1],
       [op |-> "Store", name |-> "fz"] >>

HeapAlphabet ==
    {[op |-> "PushInt", v |-> v] : v \in {0, 1}}
    \cup {[op |-> "PushStr", str |-> "a"]}
    \cup {[op |-> "Load", name |-> name] : name \in {"l", "m", "d", "fz"}}
    \cup {[op |-> "BuildList", n |-> 1]}
    \cup {[op |-> "Add"], [op |-> "StoreIndex"]}
    \cup {[op |-> "StoreAttr", attr |-> attr] : attr \in {"a", "b"}}
    \cup {[op |-> "CallBuiltin", name |-> "freeze", argc |-> 1]}

InitHeap ==
    /\ Blank
    /\ NoImage
    /\ code = [i \in 0..(Len(Prologue) + CodeLen - 1) |->
                  IF i < Len(Prologue) THEN Prologue[i + 1] ELSE Undecided]
    /\ funcs = EmptyMap
    /\ status = "running"

\* one iteration of the loop of run: `while pc < code.len()` holds and
\* code[pc] is ins, decided now among HeapAlphabet if the slot was not reached
\* before
HeapStep ==
    \E ins \in HeapAlphabet \cup {Prologue[i] : i \in DOMAIN Prologue} :
        /\ status = "running"
        /\ pc < code_len
        /\ \/ code[pc] = ins
           \/ code[pc] = Undecided /\ ins \in HeapAlphabet
        /\ code' = [code EXCEPT ![pc] = ins]
        /\ instr' = ins
        /\ \E nd \in Choices(heap, ins) :
               Commit(Driver(ExecAll(VM, funcs, nd, ins)), ExecAll(VM, funcs, nd, ins).err)

NextHeap ==
    \/ HeapStep
    \/ RunReturnsOk

SpecHeap == InitHeap /\ [][NextHeap]_vars

\* run on the programs `PushInt a; PushInt b; Div` and `PushInt a; PushInt b; Mod`
\* for all machine integers a and b
ArithPrograms ==
    { ZeroBased(<< [op |-> "PushInt", v |-> a], [op |-> "PushInt", v |-> b], [op |-> o] >>) :
        a \in MinInt..MaxInt, b \in MinInt..MaxInt, o \in {"Div", "Mod"} }

InitArith ==
    /\ Blank
    /\ NoImage
    /\ code \in ArithPrograms
    /\ funcs = EmptyMap
    /\ status = "running"

SpecArith == InitArith /\ [][NextRun]_vars

\* run on the programs `<base>; PushInt s; PushInt e | PushNone; Slice` where
\* base is a list of 0..2 Ints or a string of 0..3 letters
SlicePrograms ==
    LET ListOf(n) == [i \in 1..n |-> [op |-> "PushInt", v |-> i]]
                     \o << [op |-> "BuildList", n |-> n] >>
        bases == {ListOf(n) : n \in 0..2}
                 \cup {<< [op |-> "PushStr", str |-> str] >> : str \in {"", "a", "ab", "abc"}}
        ends == {[op |-> "PushInt", v |-> e] : e \in -1..4} \cup {[op |-> "PushNone"]}
    IN { ZeroBased(base \o << [op |-> "PushInt", v |-> start], end, [op |-> "Slice"] >>) :
             base \in bases, start \in -1..4, end \in ends }

\* run on the programs `<a>; <b>; op` and `<a>; op` for the instructions that
\* coerce operands to integers; an operand is a machine integer, a Str that
\* is or is not a decimal integer, or None
CoercePrograms ==
    LET operands == {[op |-> "PushInt", v |-> v] : v \in {MinInt, -1, 0, 1}}
                    \cup {[op |-> "PushStr", str |-> str] :
                              str \in {"", "a", "1", "-1", "+1", "1a", "99"}}
                    \cup {[op |-> "PushNone"]}
        binops == {"Add", "Sub", "Mul", "Div", "Mod", "BAnd", "BOr", "BXor", "Shl", "Shr",
                   "Lt", "Le", "Gt", "Ge"}
    IN { ZeroBased(<<a, b, [op |-> o]>>) : a \in operands, b \in operands, o \in binops }
       \cup { ZeroBased(<<a, [op |-> o]>>) : a \in operands, o \in {"Not", "Neg"} }

InitCoerce ==
    /\ Blank
    /\ NoImage
    /\ code \in CoercePrograms
    /\ funcs = EmptyMap
    /\ status = "running"

SpecCoerce == InitCoerce /\ [][NextRun]_vars

(* run on the programs `<prefix>; <args>; CallBuiltin(name, argc)` and      *)
(* `<prefix>; PushStr name; <args>; BuildList(argc); CallBuiltin            *)
(* ("call_builtin", 2)`: name is every builtin or an unknown name, args are *)
(* 0..2 values of every type, and prefix opens a file in text or in binary  *)
(* mode (its handle is 0) or is empty.                                      *)
BuiltinNames ==
    {"chr", "ascii", "hex", "binary", "length", "freeze", "panic", "raise", "read_file",
     "file_open", "file_read", "file_write", "file_close", "file_exists", "call_builtin",
     "nope"}

BuiltinPrograms ==
    LET arg == { <<[op |-> "PushInt", v |-> v]>> : v \in {-1, 0, 1, IntBits - 1} }
               \cup { <<[op |-> "PushStr", str |-> str]>> : str \in {"", "a", "r", "hex"} }
               \cup { <<[op |-> "PushNone"]>>,
                      <<[op |-> "PushInt", v |-> 1], [op |-> "BuildList", n |-> 1]>>,
                      <<[op |-> "BuildList", n |-> 0]>>,
                      <<[op |-> "BuildDict", n |-> 0]>>,
                      <<[op |-> "BuildDict", n |-> 0],
                        [op |-> "CallBuiltin", name |-> "freeze", argc |-> 1]>> }
        args == {<< >>} \cup { <<a>> : a \in arg } \cup { <<a, b>> : a \in arg, b \in arg }
        Flat(as) == IF as = << >> THEN << >>
                    ELSE IF Len(as) = 1 THEN as[1] ELSE as[1] \o as[2]
        open(mode) == << [op |-> "PushStr", str |-> "a"], [op |-> "PushStr", str |-> mode],
                         [op |-> "CallBuiltin", name |-> "file_open", argc |-> 2],
                         [op |-> "Pop"] >>
        prefix == {<< >>, open("r"), open("ab")}
    IN { ZeroBased(pre \o Flat(as)
                       \o <<[op |-> "CallBuiltin", name |-> n, argc |-> Len(as)]>>) :
           pre \in prefix, as \in args, n \in BuiltinNames }
       \cup { ZeroBased(pre \o <<[op |-> "PushStr", str |-> n]>> \o Flat(as)
                        \o << [op |-> "BuildList", n |-> Len(as)],
                              [op |-> "CallBuiltin", name |-> "call_builtin", argc |-> 2] >>) :
                pre \in prefix, as \in args, n \in BuiltinNames }

InitBuiltins ==
    /\ Blank
    /\ NoImage
    /\ code \in BuiltinPrograms
    /\ funcs = EmptyMap
    /\ status = "running"

SpecBuiltins == InitBuiltins /\ [][NextRun]_vars

\* run on the programs `<k1>; <v1>; BuildDict(1)` and `<k1>; <v1>; <k2>; <v2>;
\* BuildDict(2)`: the keys are strings, an integer and None, and two keys can
\* have the same string
DictPrograms ==
    LET keys == {[op |-> "PushStr", str |-> "a"], [op |-> "PushStr", str |-> "1"],
                 [op |-> "PushInt", v |-> 1], [op |-> "PushNone"]}
        vals == {[op |-> "PushInt", v |-> v] : v \in {0, 1}} \cup {[op |-> "PushStr", str |-> "a"]}
    IN { ZeroBased(<<k1, v1, [op |-> "BuildDict", n |-> 1]>>) : k1 \in keys, v1 \in vals }
       \cup { ZeroBased(<<k1, v1, k2, v2, [op |-> "BuildDict", n |-> 2]>>) :
                k1 \in keys, v1 \in vals, k2 \in keys, v2 \in vals }

InitDict ==
    /\ Blank
    /\ NoImage
    /\ code \in DictPrograms
    /\ funcs = EmptyMap
    /\ status = "running"

SpecDict == InitDict /\ [][NextRun]_vars

\* run on the programs `<base>; Attr(a)` and `<base>; <val>; StoreAttr(a)`:
\* base is an Int, a Str, None, a list, a dict with or without the key a, or
\* a frozen dict
AttrPrograms ==
    LET dict == <<[op |-> "PushStr", str |-> "a"], [op |-> "PushInt", v |-> 1],
                  [op |-> "BuildDict", n |-> 1]>>
        freezes == <<[op |-> "CallBuiltin", name |-> "freeze", argc |-> 1]>>
        bases == {<<[op |-> "PushInt", v |-> 0]>>, <<[op |-> "PushStr", str |-> "a"]>>,
                  <<[op |-> "PushNone"]>>, <<[op |-> "BuildList", n |-> 0]>>,
                  <<[op |-> "BuildDict", n |-> 0]>>, dict, dict \o freezes}
        vals == {[op |-> "PushInt", v |-> 0], [op |-> "PushStr", str |-> "a"], [op |-> "PushNone"]}
    IN { ZeroBased(b \o <<[op |-> "Attr", attr |-> a]>>) : b \in bases, a \in {"a", "b"} }
       \cup { ZeroBased(b \o <<v, [op |-> "StoreAttr", attr |-> a]>>) :
                b \in bases, v \in vals, a \in {"a", "b"} }

InitAttr ==
    /\ Blank
    /\ NoImage
    /\ code \in AttrPrograms
    /\ funcs = EmptyMap
    /\ status = "running"

SpecAttr == InitAttr /\ [][NextRun]_vars

(* run on the programs that bind l = [a1, 0] and m = [a2], store into l[1]  *)
(* the list l itself, the list m or an Int, store the list l into m[1] or    *)
(* leave m as it is, and then execute `PushStr a3; Load l; CallBuiltin        *)
(* ("call_builtin", 2)`; a1, a2 and a3 are names of builtins.                 *)
CyclePrograms ==
    LET names == {"call_builtin", "length"}
        Set(name, fill) == << [op |-> "Load", name |-> name], [op |-> "PushInt", v |-> 1],
                              fill, [op |-> "StoreIndex"] >>
        fills == {[op |-> "Load", name |-> "l"], [op |-> "Load", name |-> "m"],
                  [op |-> "PushInt", v |-> 0]}
        links == {Set("m", [op |-> "Load", name |-> "l"]), << >>}
    IN { ZeroBased(<< [op |-> "PushStr", str |-> a1], [op |-> "PushInt", v |-> 0],
                      [op |-> "BuildList", n |-> 2], [op |-> "Store", name |-> "l"],
                      [op |-> "PushStr", str |-> a2], [op |-> "BuildList", n |-> 1],
                      [op |-> "Store", name |-> "m"] >>
                   \o Set("l", fill) \o link
                   \o << [op |-> "PushStr", str |-> a3], [op |-> "Load", name |-> "l"],
                         [op |-> "CallBuiltin", name |-> "call_builtin", argc |-> 2] >>) :
           a1 \in names, a2 \in names, a3 \in names, fill \in fills, link \in links }

InitCycle ==
    /\ Blank
    /\ NoImage
    /\ code \in CyclePrograms
    /\ funcs = EmptyMap
    /\ status = "running"

SpecCycle == InitCycle /\ [][NextRun]_vars

(* run on the programs `<dict x>; Store d; <dict y>; Load d; Eq` and the     *)
(* same with Ne: each dict is built by BuildDict from one or two pairs, so    *)
(* that x and y                                                               *)
(* hold the same pairs inserted in the same order or in the other order, or   *)
(* hold different pairs.                                                      *)
EqPrograms ==
    LET A == <<[op |-> "PushStr", str |-> "a"], [op |-> "PushInt", v |-> 1]>>
        B == <<[op |-> "PushStr", str |-> "b"], [op |-> "PushInt", v |-> 2]>>
        C == <<[op |-> "PushStr", str |-> "b"], [op |-> "PushInt", v |-> 1]>>
        dicts == {A \o <<[op |-> "BuildDict", n |-> 1]>>}
                 \cup {ps \o <<[op |-> "BuildDict", n |-> 2]>> : ps \in {A \o B, B \o A, A \o C}}
    IN { ZeroBased(x \o <<[op |-> "Store", name |-> "d"]>> \o y
                   \o <<[op |-> "Load", name |-> "d"], [op |-> o]>>) :
           x \in dicts, y \in dicts, o \in {"Eq", "Ne"} }

InitEq ==
    /\ Blank
    /\ NoImage
    /\ code \in EqPrograms
    /\ funcs = EmptyMap
    /\ status = "running"

SpecEq == InitEq /\ [][NextRun]_vars

(* run on the programs that bind m to a list or a dict, build from it a      *)
(* value in which m occurs twice, once, nested, or as an element of itself,  *)
(* and then execute `Store v; PushStr ""; Load v; Add`, which pushes the      *)
(* to_string form of the value.                                               *)
SharePrograms ==
    LET m == [op |-> "Load", name |-> "m"]
        inners == { <<[op |-> "PushInt", v |-> 1], [op |-> "BuildList", n |-> 1]>>,
                    <<[op |-> "BuildList", n |-> 0]>>,
                    <<[op |-> "PushStr", str |-> "a"], [op |-> "PushInt", v |-> 1],
                      [op |-> "BuildDict", n |-> 1]>> }
        outers == { <<m, m, [op |-> "BuildList", n |-> 2]>>,
                    <<m, [op |-> "PushInt", v |-> 0], [op |-> "BuildList", n |-> 2]>>,
                    <<m, [op |-> "BuildList", n |-> 1], [op |-> "BuildList", n |-> 1]>>,
                    <<m, [op |-> "PushInt", v |-> 0], m, [op |-> "StoreIndex"], m>>,
                    <<[op |-> "PushStr", str |-> "a"], m, [op |-> "PushStr", str |-> "b"], m,
                      [op |-> "BuildDict", n |-> 2]>> }
    IN { ZeroBased(inner \o <<[op |-> "Store", name |-> "m"]>> \o outer
                   \o << [op |-> "Store", name |-> "v"], [op |-> "PushStr", str |-> ""],
                         [op |-> "Load", name |-> "v"], [op |-> "Add"] >>) :
           inner \in inners, outer \in outers }

InitShare ==
    /\ Blank
    /\ NoImage
    /\ code \in SharePrograms
    /\ funcs = EmptyMap
    /\ status = "running"

SpecShare == InitShare /\ [][NextRun]_vars

(* run on the programs in which the top level calls f(), and f executes one  *)
(* instruction that consumes operands on a stack that holds fewer values     *)
(* than it consumes.                                                         *)

\* the functions of these programs: f() is the body, boom(x) a callee
UnderflowTable ==
    [f |-> [params |-> << >>, address |-> 2], boom |-> [params |-> <<"x">>, address |-> 1]]

\* the number of operands that the arm of ins takes from the stack
Operands(ins) ==
    CASE ins.op \in {"Add", "Sub", "Mul", "Div", "Mod", "BAnd", "BOr", "BXor", "Shl", "Shr",
                     "Eq", "Ne", "Lt", "Le", "Gt", "Ge", "StoreAttr"} -> 2
      [] ins.op \in {"Not", "Neg", "Attr", "JumpIfFalse", "Assert", "Store", "Pop", "Emit",
                     "Ret"} -> 1
      [] ins.op \in {"Slice", "StoreIndex"} -> 3
      [] ins.op = "BuildList" -> ins.n
      [] ins.op = "BuildDict" -> 2 * ins.n
      [] ins.op \in {"Call", "TailCall"} -> Len(UnderflowTable[ins.name].params)
      [] ins.op = "CallValue" -> ins.argc + 1
      [] ins.op = "CallBuiltin" -> ins.argc
      [] OTHER -> 0

\* the instructions that consume operands
Consumers ==
    {[op |-> o] : o \in {"Add", "Sub", "Mul", "Div", "Mod", "BAnd", "BOr", "BXor", "Shl", "Shr",
                         "Eq", "Ne", "Lt", "Le", "Gt", "Ge", "Not", "Neg", "Slice",
                         "StoreIndex", "Assert", "Pop", "Emit", "Ret"}}
    \cup {[op |-> "BuildList", n |-> 2], [op |-> "BuildDict", n |-> 1],
          [op |-> "Attr", attr |-> "a"], [op |-> "StoreAttr", attr |-> "a"],
          [op |-> "JumpIfFalse", target |-> 1], [op |-> "Store", name |-> "x"],
          [op |-> "Call", name |-> "boom"], [op |-> "TailCall", name |-> "boom"],
          [op |-> "CallValue", argc |-> 1],
          [op |-> "CallBuiltin", name |-> "length", argc |-> 1]}

\* f is `k times PushInt 1; ins` for each ins and each k below what ins consumes
UnderflowPrograms ==
    UNION { { ZeroBased(<<[op |-> "Call", name |-> "f"], [op |-> "Halt"]>>
                        \o [i \in 1..k |-> [op |-> "PushInt", v |-> 1]] \o <<ins>>) :
                k \in 0..(Operands(ins) - 1) } : ins \in Consumers }

InitUnderflow ==
    /\ Blank
    /\ NoImage
    /\ code \in UnderflowPrograms
    /\ funcs = UnderflowTable
    /\ status = "running"

SpecUnderflow == InitUnderflow /\ [][NextRun]_vars

(* run on the programs in which the top level calls p(1), and p(x) sets up  *)
(* a protected region, executes `inner` in it and then raises; the handler  *)
(* is `Load x; Emit; Halt`.  inner is nothing, or a Call, CallValue or      *)
(* TailCall of c(2), where c is f(x) or g(y); the callee raises, or loads x *)
(* and returns.  No program stores to x.                                    *)
HandlerPrograms ==
    LET raise == <<[op |-> "PushStr", str |-> "boom"], [op |-> "Raise", kind |-> "Generic"]>>
        inners == {<< >>}
                  \cup { <<[op |-> "PushInt", v |-> 2], [op |-> o, name |-> c]>> :
                            o \in {"Call", "TailCall"}, c \in {"f", "g"} }
                  \cup { <<[op |-> "PushStr", str |-> c], [op |-> "PushInt", v |-> 2],
                           [op |-> "CallValue", argc |-> 1]>> : c \in {"f", "g"} }
        bodies == {raise, <<[op |-> "Load", name |-> "x"], [op |-> "Ret"]>>}
        handler(inner) == 4 + Len(inner) + Len(raise)
        Program(inner, body) ==
            [code |-> ZeroBased(
                 << [op |-> "PushInt", v |-> 1], [op |-> "Call", name |-> "p"],
                    [op |-> "Halt"],
                    [op |-> "SetupExcept", target |-> handler(inner)] >>
                 \o inner \o raise
                 \o <<[op |-> "Load", name |-> "x"], [op |-> "Emit"], [op |-> "Halt"]>>
                 \o body),
             funcs |-> [p |-> [params |-> <<"x">>, address |-> 3],
                        f |-> [params |-> <<"x">>, address |-> handler(inner) + 3],
                        g |-> [params |-> <<"y">>, address |-> handler(inner) + 3]]]
    IN { Program(inner, body) : inner \in inners, body \in bodies }

InitHandler ==
    /\ Blank
    /\ NoImage
    /\ \E program \in HandlerPrograms :
           /\ code = program.code
           /\ funcs = program.funcs
    /\ status = "running"

SpecHandler == InitHandler /\ [][NextRun]_vars

(* Several VM instances in parallel threads.  Each thread is its VM's       *)
(* sequence of calls of the file builtins; the registers of a VM are its    *)
(* thread's own, only NEXT_FD and FILE_HANDLES are shared.  A call is one   *)
(* step (it holds the lock of FILE_HANDLES from its first to its last       *)
(* access), but file_open is two: fetch_add on NEXT_FD, then lock and       *)
(* insert.  The threads open the file a for reading, hold as many handles   *)
(* at once as there are threads, and pass every handle value and one        *)
(* integer beyond them.  The results go to callers.last (of the values      *)
(* returned, the handles only).                                             *)
HandleSamples == (-(2 ^ (FdBits - 1)))..((2 ^ (FdBits - 1)) - 1) \cup {2 ^ FdBits}

\* the call name(args) returned res to a thread
CallRecord(name, args, res) ==
    [tick |-> 1 - callers.last.tick, name |-> name, args |-> args, ok |-> res.ok,
     val |-> IF res.ok /\ name = "file_open" THEN res.val ELSE NoneV,
     err |-> IF res.ok THEN NoError ELSE res.err]

\* thread t calls file_open up to `NEXT_FD.fetch_add(1, SeqCst)`, or to the
\* error it returns before
CallerOpens(t) ==
    /\ callers.at[t] = Idle
    /\ Cardinality(DOMAIN files.table) + Cardinality({u \in Threads : callers.at[u] # Idle})
           < Cardinality(Threads)
    /\ \E mode \in {"r", ""} :
       \E nd \in Choices(heap, [op |-> "CallBuiltin", name |-> "file_open"]) :
           LET args == <<StrV("a"), StrV(mode)>>
               res == call_builtin([heap |-> heap, files |-> files], nd, "file_open", args)
           IN IF res.ok
              THEN /\ files' = [files EXCEPT !.next_fd = res.files.next_fd]
                   /\ callers' = [callers EXCEPT
                          !.at[t] = Fetched(res.val.i, res.files.table[res.val.i], args)]
              ELSE /\ files' = files
                   /\ callers' = [callers EXCEPT !.last = CallRecord("file_open", args, res)]
    /\ UNCHANGED <<code, funcs, stack, globals, env, env_stack, ret_stack, pc, block_stack,
                   output, heap, status, error, instr, instr_res, handled, caught,
                   call_height, prev, variant, first, data, source>>

\* thread t ends file_open: `FILE_HANDLES.lock().unwrap().insert(handle,
\* FileEntry { file, binary })`, then `Ok(Value::Int(handle as i64))`
CallerInserts(t) ==
    /\ callers.at[t] # Idle
    /\ LET at == callers.at[t]
       IN /\ files' = [files EXCEPT !.table = Insert(@, at.handle, at.entry)]
          /\ callers' = [callers EXCEPT
                 !.at[t] = Idle,
                 !.last = CallRecord("file_open", at.args,
                                     [ok |-> TRUE, val |-> IntV(at.handle)]),
                 !.issued = @ \cup {at.handle},
                 !.live = @ \cup {at.handle}]
    /\ UNCHANGED <<code, funcs, stack, globals, env, env_stack, ret_stack, pc, block_stack,
                   output, heap, status, error, instr, instr_res, handled, caught,
                   call_height, prev, variant, first, data, source>>

\* thread t calls file_read, file_write or file_close on an integer
CallerCalls(t) ==
    /\ callers.at[t] = Idle
    /\ \E name \in {"file_read", "file_write", "file_close"}, h \in HandleSamples :
       \E nd \in Choices(heap, [op |-> "CallBuiltin", name |-> name]) :
           LET args == IF name = "file_write" THEN <<IntV(h), StrV("a")>> ELSE <<IntV(h)>>
               res == call_builtin([heap |-> heap, files |-> files], nd, name, args)
               closes == name = "file_close" /\ res.ok
           IN /\ files' = res.files
              /\ callers' = [callers EXCEPT
                     !.last = CallRecord(name, args, res),
                     !.live = IF closes THEN @ \ {h} ELSE @,
                     !.closed = IF closes THEN @ \cup {h} ELSE @]
    /\ UNCHANGED <<code, funcs, stack, globals, env, env_stack, ret_stack, pc, block_stack,
                   output, heap, status, error, instr, instr_res, handled, caught,
                   call_height, prev, variant, first, data, source>>

InitFiles ==
    /\ Blank
    /\ NoImage
    /\ code = << >>
    /\ funcs = EmptyMap
    /\ status = "running"

NextFiles ==
    \E t \in Threads :
        \/ CallerOpens(t)
        \/ CallerInserts(t)
        \/ CallerCalls(t)

SpecFiles == InitFiles /\ [][NextFiles]_vars

InitSlice ==
    /\ Blank
    /\ NoImage
    /\ code \in SlicePrograms
    /\ funcs = EmptyMap
    /\ status = "running"

SpecSlice == InitSlice /\ [][NextRun]_vars

(* ---------------------------- bytecode images ---------------------------- *)

(* A bytecode image is a sequence of bytes.  The readers take the image and *)
(* the index idx (from 0) and give the value read and the index after it,   *)
(* or ReadPanic where the Rust code panics (a slice or index out of range,  *)
(* a failed assert!, an unwrap on Err).                                     *)

\* b"OMGB"
Magic == <<79, 77, 71, 66>>

\* const BC_VERSION: (MAJOR << 16) | (MINOR << 8) | PATCH
BC_VERSION == (0 * 65536) + (1 * 256) + 1

Read(v, idx) == [ok |-> TRUE, v |-> v, idx |-> idx]
ReadPanic == [ok |-> FALSE]

\* data[idx..idx + n]
Bytes(bytes, idx, n) == SubSeq(bytes, idx + 1, idx + n)

\* u32::from_le_bytes
RECURSIVE FromLE(_)
FromLE(bytes) == IF bytes = << >> THEN 0 ELSE Head(bytes) + 256 * FromLE(Tail(bytes))

\* i64::from_le_bytes: two's complement, the last byte carries the sign
RECURSIVE SignedFromLE(_)
SignedFromLE(bytes) ==
    IF Len(bytes) = 1 THEN (IF bytes[1] >= 128 THEN bytes[1] - 256 ELSE bytes[1])
    ELSE Head(bytes) + 256 * SignedFromLE(Tail(bytes))

\* fn read_u32
read_u32(bytes, idx) ==
    IF idx + 4 > Len(bytes) THEN ReadPanic
    ELSE Read(FromLE(Bytes(bytes, idx, 4)), idx + 4)

\* fn read_i64
read_i64(bytes, idx) ==
    IF idx + 8 > Len(bytes) THEN ReadPanic
    ELSE Read(SignedFromLE(Bytes(bytes, idx, 8)), idx + 8)

\* the UTF-8 code of the letters the names of the images are made of

\* String::from_utf8 on bytes of those letters; on any other byte the images
\* below do not go on (taken as the Err that unwrap panics on)
from_utf8(bytes) == FromChars([i \in 1..Len(bytes) |-> CodeChar(bytes[i])])

\* fn read_string
read_string(bytes, idx) ==
    LET len == read_u32(bytes, idx)
    IN IF ~len.ok THEN ReadPanic
       ELSE IF len.idx + len.v > Len(bytes) THEN ReadPanic
       ELSE IF \E i \in 1..len.v : bytes[len.idx + i] \notin {97, 98, 99} THEN ReadPanic
       ELSE Read(from_utf8(Bytes(bytes, len.idx, len.v)), len.idx + len.v)

\* try_from altered: the bytes of Syntax and Type are exchanged
try_from_exchanged(v) ==
    CASE v = 0 -> "Generic"
      [] v = 1 -> "Type"
      [] v = 2 -> "Syntax"
      [] v = 3 -> "UndefinedIdent"
      [] v = 4 -> "Value"
      [] v = 5 -> "ModuleImport"
      [] OTHER -> "Err"

\* ErrorKind::try_from(u8): the kind, or "Err"
try_from(v) ==
    CASE v = 0 -> "Generic"
      [] v = 1 -> "Syntax"
      [] v = 2 -> "Type"
      [] v = 3 -> "UndefinedIdent"
      [] v = 4 -> "Value"
      [] v = 5 -> "ModuleImport"
      [] OTHER -> "Err"

\* the arms of `match op` that push an instruction without operands
SimpleInstr ==
    (7 :> "Add") @@ (8 :> "Sub") @@ (9 :> "Mul") @@ (10 :> "Div") @@ (11 :> "Mod")
    @@ (12 :> "Eq") @@ (13 :> "Ne") @@ (14 :> "Lt") @@ (15 :> "Le") @@ (16 :> "Gt")
    @@ (17 :> "Ge") @@ (18 :> "BAnd") @@ (19 :> "BOr") @@ (20 :> "BXor") @@ (21 :> "Shl")
    @@ (22 :> "Shr") @@ (23 :> "And") @@ (24 :> "Or") @@ (25 :> "Not") @@ (26 :> "Neg")
    @@ (27 :> "Index") @@ (28 :> "Slice") @@ (34 :> "Pop") @@ (35 :> "PushNone")
    @@ (36 :> "Ret") @@ (37 :> "Emit") @@ (38 :> "Halt") @@ (39 :> "StoreIndex")
    @@ (42 :> "Assert") @@ (45 :> "PopBlock")

\* what one turn of the decoding loop gives: an instruction to push, or nothing
Decoded(ins, idx) == [ok |-> TRUE, push |-> TRUE, ins |-> ins, idx |-> idx]
Skipped(idx) == [ok |-> TRUE, push |-> FALSE, idx |-> idx]

\* an arm that reads one operand with reader r and pushes Mk(operand)
WithOperand(r, Mk(_)) == IF r.ok THEN Decoded(Mk(r.v), r.idx) ELSE ReadPanic

\* parse_bytecode, the body of `for _ in 0..code_len`: `let op = data[idx];
\* idx += 1; match op { ... }` at index at
DecodeInstr(bytes, at) ==
    LET op == bytes[at + 1]
        idx == at + 1
    IN CASE op = 0 -> WithOperand(read_i64(bytes, idx), LAMBDA v : [op |-> "PushInt", v |-> v])
         [] op = 1 -> WithOperand(read_string(bytes, idx), LAMBDA v : [op |-> "PushStr", str |-> v])
         [] op = 2 -> IF idx >= Len(bytes) THEN ReadPanic
                      ELSE Decoded([op |-> "PushBool", b |-> bytes[idx + 1] # 0], idx + 1)
         [] op = 3 -> WithOperand(read_u32(bytes, idx), LAMBDA v : [op |-> "BuildList", n |-> v])
         [] op = 4 -> WithOperand(read_u32(bytes, idx), LAMBDA v : [op |-> "BuildDict", n |-> v])
         [] op = 5 -> WithOperand(read_string(bytes, idx), LAMBDA v : [op |-> "Load", name |-> v])
         [] op = 6 -> WithOperand(read_string(bytes, idx), LAMBDA v : [op |-> "Store", name |-> v])
         [] op \in DOMAIN SimpleInstr -> Decoded([op |-> SimpleInstr[op]], idx)
         [] op = 29 -> WithOperand(read_u32(bytes, idx), LAMBDA v : [op |-> "Jump", target |-> v])
         [] op = 30 -> WithOperand(read_u32(bytes, idx),
                                   LAMBDA v : [op |-> "JumpIfFalse", target |-> v])
         [] op = 31 -> WithOperand(read_string(bytes, idx), LAMBDA v : [op |-> "Call", name |-> v])
         [] op = 32 -> WithOperand(read_string(bytes, idx),
                                   LAMBDA v : [op |-> "TailCall", name |-> v])
         [] op = 33 -> LET name == read_string(bytes, idx)
                       IN IF ~name.ok THEN ReadPanic
                          ELSE WithOperand(read_u32(bytes, name.idx),
                                   LAMBDA v : [op |-> "CallBuiltin", name |-> name.v, argc |-> v])
         [] op = 40 -> WithOperand(read_string(bytes, idx), LAMBDA v : [op |-> "Attr", attr |-> v])
         [] op = 41 -> WithOperand(read_string(bytes, idx),
                                   LAMBDA v : [op |-> "StoreAttr", attr |-> v])
         [] op = 43 -> WithOperand(read_u32(bytes, idx), LAMBDA v : [op |-> "CallValue", argc |-> v])
         [] op = 44 -> WithOperand(read_u32(bytes, idx),
                                   LAMBDA v : [op |-> "SetupExcept", target |-> v])
         [] op = 46 -> IF idx >= Len(bytes) THEN ReadPanic
                       ELSE IF try_from(bytes[idx + 1]) = "Err" THEN ReadPanic
                       ELSE Decoded([op |-> "Raise", kind |-> try_from(bytes[idx + 1])], idx + 1)
         [] op = 47 -> Decoded([op |-> "Raise", kind |-> "Syntax"], idx)
         [] op = 48 -> Decoded([op |-> "Raise", kind |-> "Type"], idx)
         [] op = 49 -> Decoded([op |-> "Raise", kind |-> "UndefinedIdent"], idx)
         [] op = 50 -> Decoded([op |-> "Raise", kind |-> "Value"], idx)
         [] op = 51 -> Decoded([op |-> "Raise", kind |-> "ModuleImport"], idx)
         [] OTHER -> Skipped(idx)

\* parse_bytecode, `for _ in 0..code_len { ... }`: n turns from index idx
RECURSIVE DecodeCode(_, _, _, _)
DecodeCode(bytes, idx, n, acc) ==
    IF n = 0 THEN [ok |-> TRUE, code |-> acc, idx |-> idx]
    ELSE IF idx >= Len(bytes) THEN ReadPanic
    ELSE LET d == DecodeInstr(bytes, idx)
         IN IF ~d.ok THEN ReadPanic
            ELSE DecodeCode(bytes, d.idx, n - 1, IF d.push THEN Append(acc, d.ins) ELSE acc)

\* parse_bytecode, `for _ in 0..param_count { params.push(read_string(..)) }`
RECURSIVE ReadParams(_, _, _, _)
ReadParams(bytes, idx, n, acc) ==
    IF n = 0 THEN [ok |-> TRUE, params |-> acc, idx |-> idx]
    ELSE LET r == read_string(bytes, idx)
         IN IF ~r.ok THEN ReadPanic ELSE ReadParams(bytes, r.idx, n - 1, Append(acc, r.v))

\* parse_bytecode, `for _ in 0..func_count { ... funcs.insert(name, Function { .. }) }`
RECURSIVE ReadFuncs(_, _, _, _)
ReadFuncs(bytes, idx, n, map) ==
    IF n = 0 THEN [ok |-> TRUE, funcs |-> map, idx |-> idx]
    ELSE LET name == read_string(bytes, idx)
         IN IF ~name.ok THEN ReadPanic
            ELSE LET param_count == read_u32(bytes, name.idx)
                 IN IF ~param_count.ok THEN ReadPanic
                    ELSE LET params == ReadParams(bytes, param_count.idx, param_count.v, << >>)
                         IN IF ~params.ok THEN ReadPanic
                            ELSE LET address == read_u32(bytes, params.idx)
                                 IN IF ~address.ok THEN ReadPanic
                                    ELSE ReadFuncs(bytes, address.idx, n - 1,
                                             Insert(map, name.v, [params |-> params.params,
                                                                  address |-> address.v]))

\* parse_bytecode, up to the function table: the header is checked and the
\* functions are read
ReadHeader(bytes) ==
    IF Len(bytes) < 4 THEN ReadPanic
    ELSE IF Bytes(bytes, 0, 4) # Magic THEN ReadPanic
    ELSE LET version == read_u32(bytes, 4)
         IN IF ~version.ok THEN ReadPanic
            ELSE IF version.v # BC_VERSION THEN ReadPanic
            ELSE LET func_count == read_u32(bytes, version.idx)
                 IN IF ~func_count.ok THEN ReadPanic
                    ELSE ReadFuncs(bytes, func_count.idx, func_count.v, EmptyMap)

\* fn parse_bytecode: the code and the function table, or ReadPanic
parse_bytecode(bytes) ==
    LET head == ReadHeader(bytes)
    IN IF ~head.ok THEN ReadPanic
       ELSE LET len == read_u32(bytes, head.idx)
            IN IF ~len.ok THEN ReadPanic
               ELSE LET c == DecodeCode(bytes, len.idx, len.v, << >>)
                    IN IF ~c.ok THEN ReadPanic
                       ELSE [ok |-> TRUE, code |-> c.code, funcs |-> head.funcs]

(* The encoder is not part of the runtime: it is written from the binary    *)
(* layout and the opcode table of the specification.                        *)

\* n bytes of v, little-endian (two's complement for v < 0)
RECURSIVE ToLE(_, _)
ToLE(v, n) == IF n = 0 THEN << >> ELSE << v % 256 >> \o ToLE(v \div 256, n - 1)

Utf8(str) == [i \in 1..Len(Chars(str)) |-> CharCode(Chars(str)[i])]

\* lp_str: u32 length, then the UTF-8 bytes
lp_str(str) == ToLE(Len(Utf8(str)), 4) \o Utf8(str)

RECURSIVE Flatten(_)
Flatten(seqs) == IF seqs = << >> THEN << >> ELSE Head(seqs) \o Flatten(Tail(seqs))

\* the opcode table, instructions without operand
SpecOpcode(name) ==
    CASE name = "Add" -> 7 [] name = "Sub" -> 8 [] name = "Mul" -> 9
      [] name = "Div" -> 10 [] name = "Mod" -> 11
      [] name = "Eq" -> 12 [] name = "Ne" -> 13 [] name = "Lt" -> 14
      [] name = "Le" -> 15 [] name = "Gt" -> 16 [] name = "Ge" -> 17
      [] name = "BAnd" -> 18 [] name = "BOr" -> 19 [] name = "BXor" -> 20
      [] name = "Shl" -> 21 [] name = "Shr" -> 22
      [] name = "And" -> 23 [] name = "Or" -> 24 [] name = "Not" -> 25 [] name = "Neg" -> 26
      [] name = "Index" -> 27 [] name = "Slice" -> 28
      [] name = "Pop" -> 34 [] name = "PushNone" -> 35 [] name = "Ret" -> 36
      [] name = "Emit" -> 37 [] name = "Halt" -> 38
      [] name = "StoreIndex" -> 39 [] name = "Assert" -> 42 [] name = "PopBlock" -> 45

\* the numeric encoding of ErrorKind
KindByte(kind) ==
    CASE kind = "Generic" -> 0 [] kind = "Syntax" -> 1 [] kind = "Type" -> 2
      [] kind = "UndefinedIdent" -> 3 [] kind = "Value" -> 4 [] kind = "ModuleImport" -> 5

\* opcode and operands of one instruction; short: the encoder uses the
\* shorthand opcodes 47..51 for Raise
EncodeInstr(ins, short) ==
    CASE ins.op = "PushInt" -> <<0>> \o ToLE(ins.v, 8)
      [] ins.op = "PushStr" -> <<1>> \o lp_str(ins.str)
      [] ins.op = "PushBool" -> <<2, IF ins.b THEN 1 ELSE 0>>
      [] ins.op = "BuildList" -> <<3>> \o ToLE(ins.n, 4)
      [] ins.op = "BuildDict" -> <<4>> \o ToLE(ins.n, 4)
      [] ins.op = "Load" -> <<5>> \o lp_str(ins.name)
      [] ins.op = "Store" -> <<6>> \o lp_str(ins.name)
      [] ins.op = "Jump" -> <<29>> \o ToLE(ins.target, 4)
      [] ins.op = "JumpIfFalse" -> <<30>> \o ToLE(ins.target, 4)
      [] ins.op = "Call" -> <<31>> \o lp_str(ins.name)
      [] ins.op = "TailCall" -> <<32>> \o lp_str(ins.name)
      [] ins.op = "CallBuiltin" -> <<33>> \o lp_str(ins.name) \o ToLE(ins.argc, 4)
      [] ins.op = "Attr" -> <<40>> \o lp_str(ins.attr)
      [] ins.op = "StoreAttr" -> <<41>> \o lp_str(ins.attr)
      [] ins.op = "CallValue" -> <<43>> \o ToLE(ins.argc, 4)
      [] ins.op = "SetupExcept" -> <<44>> \o ToLE(ins.target, 4)
      [] ins.op = "Raise" -> IF short /\ ins.kind # "Generic" THEN <<46 + KindByte(ins.kind)>>
                             ELSE <<46, KindByte(ins.kind)>>
      [] OTHER -> <<SpecOpcode(ins.op)>>

\* name(lp_str) | param_count u32 | params | entry_addr u32
EncodeFunc(name, func) ==
    lp_str(name) \o ToLE(Len(func.params), 4)
    \o Flatten([i \in 1..Len(func.params) |-> lp_str(func.params[i])])
    \o ToLE(func.address, 4)

\* the image of the instruction stream c and the function table fs, the
\* functions written in the order `order`
Encode(c, fs, order, short) ==
    Magic \o ToLE(BC_VERSION, 4) \o ToLE(Len(order), 4)
    \o Flatten([i \in 1..Len(order) |-> EncodeFunc(order[i], fs[order[i]])])
    \o ToLE(Len(c), 4)
    \o Flatten([i \in 1..Len(c) |-> EncodeInstr(c[i], short)])

\* instructions of every opcode, with operands of every kind
InstrSamples ==
    {[op |-> "PushInt", v |-> v] : v \in {-1, 0, 258}}
    \cup {[op |-> "PushStr", str |-> str] : str \in {"", "ab"}}
    \cup {[op |-> "PushBool", b |-> b] : b \in BOOLEAN}
    \cup {[op |-> "BuildList", n |-> n] : n \in {0, 2}}
    \cup {[op |-> "BuildDict", n |-> 1]}
    \cup {[op |-> "Load", name |-> "a"], [op |-> "Store", name |-> "b"]}
    \cup {[op |-> SimpleInstr[o]] : o \in DOMAIN SimpleInstr}
    \cup {[op |-> "Jump", target |-> 1], [op |-> "JumpIfFalse", target |-> 0]}
    \cup {[op |-> "Call", name |-> "ab"], [op |-> "TailCall", name |-> "a"]}
    \cup {[op |-> "CallBuiltin", name |-> "abc", argc |-> 2]}
    \cup {[op |-> "Attr", attr |-> "a"], [op |-> "StoreAttr", attr |-> "b"]}
    \cup {[op |-> "CallValue", argc |-> 1], [op |-> "SetupExcept", target |-> 1]}
    \cup {[op |-> "Raise", kind |-> kind] : kind \in ErrorKinds}

\* images that no encoder wrote: a header without functions, then a code
\* length and opcode bytes without operands, some outside the opcode table,
\* the code length being the number of opcode bytes or one more
RawImages ==
    { Magic \o ToLE(BC_VERSION, 4) \o ToLE(0, 4) \o ToLE(Len(bytes) + more, 4) \o bytes :
        bytes \in UNION {[1..n -> {7, 38, 52, 255}] : n \in 0..3}, more \in {0, 1} }

\* the instruction streams of at most two instructions
Streams == {<< >>} \cup {<<i>> : i \in InstrSamples} \cup {<<i, j>> : i, j \in InstrSamples}

\* function tables: none, one function, two functions with parameters
Tables ==
    { EmptyMap,
      [a |-> [params |-> << >>, address |-> 0]],
      [a |-> [params |-> <<"b">>, address |-> 1],
       ab |-> [params |-> <<"a", "b">>, address |-> 0]] }

\* parse_bytecode is given the image of a stream and a table, or a raw image
InitParse ==
    /\ Blank
    /\ code = ZeroBased(<< >>)
    /\ funcs = EmptyMap
    /\ status = "loading"
    /\ \/ \E c \in Streams, fs \in Tables, short \in BOOLEAN :
              \E order \in Perms(DOMAIN fs) :
                  /\ data = Encode(c, fs, order, short)
                  /\ source = [code |-> c, funcs |-> fs]
       \/ /\ data \in RawImages
          /\ source = NoSource

\* main: `let (code, funcs) = parse_bytecode(&src)`
ParseBytecode ==
    /\ status = "loading"
    /\ IF parse_bytecode(data).ok
       THEN /\ code' = ZeroBased(parse_bytecode(data).code)
            /\ funcs' = parse_bytecode(data).funcs
            /\ status' = "parsed"
       ELSE /\ status' = "panic"
            /\ UNCHANGED <<code, funcs>>
    /\ UNCHANGED <<stack, globals, env, env_stack, ret_stack, pc, block_stack, output, heap,
                   error, instr, instr_res, handled, caught, call_height, prev, variant,
                   first, data, source, files, callers>>

SpecParse == InitParse /\ [][ParseBytecode]_vars

\* programs `i; Call ab; j` and tables that put ab, with or without a
\* parameter, at the addresses 0 .. 4
LoadStreams ==
    { << i, [op |-> "Call", name |-> "ab"], j >> :
        i \in {[op |-> "PushInt", v |-> 0], [op |-> "PushStr", str |-> "a"], [op |-> "PushNone"]},
        j \in {[op |-> "Halt"], [op |-> "Ret"], [op |-> "Pop"]} }
LoadTables ==
    { [ab |-> [params |-> params, address |-> address]] :
        params \in {<< >>, <<"a">>}, address \in 0..4 }

\* main is given the image of such a program
InitLoad ==
    /\ Blank
    /\ code = ZeroBased(<< >>)
    /\ funcs = EmptyMap
    /\ status = "loading"
    /\ \E c \in LoadStreams, fs \in LoadTables :
           /\ data = Encode(c, fs, <<"ab">>, FALSE)
           /\ source = [code |-> c, funcs |-> fs]

\* main: `run(&code, &funcs, program_args)` on what parse_bytecode returned
MainRun ==
    /\ status = "parsed"
    /\ status' = "running"
    /\ UNCHANGED <<code, funcs, stack, globals, env, env_stack, ret_stack, pc, block_stack,
                   output, heap, error, instr, instr_res, handled, caught, call_height, prev,
                   variant, first, data, source, files, callers>>

NextLoad ==
    \/ ParseBytecode
    \/ MainRun
    \/ Step
    \/ RunReturnsOk

SpecLoad == InitLoad /\ [][NextLoad]_vars

(* ------------------------------ properties ------------------------------ *)

(* The properties speak of the last step: instr is the instruction it       *)
(* executed, instr_res its result, prev the registers before it.            *)

\* the last step executed an instruction that failed
Failed == instr_res # NoError

Min(a, b) == IF a < b THEN a ELSE b

\* C1: in every state run reaches after an instruction completed or an error
\* was unwound to a handler, ret_stack and env_stack have the same length.
C1_ParallelStacks ==
    status \in {"running", "Ok"} => Len(ret_stack) = Len(env_stack)

\* C1 witness: a CallValue that failed one call deep was unwound to a handler
\* of the top level, and both stacks are empty again.
C1_Witness ==
    /\ status = "running"
    /\ handled
    /\ instr.op = "CallValue"
    /\ Len(prev.env_stack) = 1
    /\ Len(prev.ret_stack) = 1
    /\ env_stack = << >>
    /\ ret_stack = << >>

\* C2: an instruction that fails while block_stack is empty ends run with
\* exactly its error, no further instruction is executed, and Raise(kind) on
\* message m fails with Raised / SyntaxError / TypeError / UndefinedIdentError /
\* ValueError / ModuleImportError of m according to kind.
C2_UncaughtErrorSurfaces ==
    /\ (Failed /\ prev.block_stack = << >>) =>
           /\ status = "Err"
           /\ error = instr_res
           /\ (instr.op = "Raise" /\ prev.stack # << >>) =>
                 /\ error.msg = to_string(Top(prev.stack))
                 /\ instr.kind = "Generic" => error.k = "Raised"
                 /\ instr.kind = "Syntax" => error.k = "SyntaxError"
                 /\ instr.kind = "Type" => error.k = "TypeError"
                 /\ instr.kind = "UndefinedIdent" => error.k = "UndefinedIdentError"
                 /\ instr.kind = "Value" => error.k = "ValueError"
                 /\ instr.kind = "ModuleImport" => error.k = "ModuleImportError"
    /\ status = "Err" => ~ENABLED Next

\* C2 witness: Raise(Syntax) of "boom" outside any protected region ended run.
C2_Witness ==
    /\ status = "Err"
    /\ instr = [op |-> "Raise", kind |-> "Syntax"]
    /\ error = [k |-> "SyntaxError", msg |-> "boom"]
    /\ prev.block_stack = << >>

C4_DepthsAreRecordedDepths ==
    handled =>
        /\ Len(env_stack) = Top(prev.block_stack).env_depth
        /\ Len(ret_stack) = Top(prev.block_stack).ret_depth

\* C4 amended: after a block caught an error, env_stack and ret_stack are cut
\* to the depths the block recorded when they were deeper (the frame that
\* executed SetupExcept was still live), and are left as they were when the
\* frame that executed SetupExcept had already returned.
C4_DepthsAreRestored ==
    handled =>
        /\ Len(env_stack) = Min(Len(prev.env_stack), Top(prev.block_stack).env_depth)
        /\ Len(ret_stack) = Min(Len(prev.ret_stack), Top(prev.block_stack).ret_depth)
        /\ env_stack = SubSeq(prev.env_stack, 1, Len(env_stack))
        /\ ret_stack = SubSeq(prev.ret_stack, 1, Len(ret_stack))

\* C4 witness: an error raised two calls deep was caught by a block of the
\* top level.
C4_Witness ==
    /\ status = "running"
    /\ handled
    /\ Len(prev.env_stack) = 2
    /\ Top(prev.block_stack).env_depth = 0
    /\ env_stack = << >>
    /\ ret_stack = << >>

\* the number of operands the failing instruction of the last step took
Consumed ==
    CASE instr.op = "Raise" -> Min(1, Len(prev.stack))
      [] instr.op = "Assert" -> 1
      [] instr.op = "CallValue" -> instr.argc + 1
      [] OTHER -> 0

\* C5 as stated: on entry to a handler the operand stack has height
\* stack_size + 1 and its top is the Str of the error's display form.
C5_HandlerStackHeight ==
    handled =>
        /\ Len(stack) = Top(prev.block_stack).stack_size + 1
        /\ Top(stack) = StrV(Display(instr_res))

\* C5 amended: on entry to a handler the operand stack is what the failing
\* instruction left of it, cut to stack_size if it was higher, with the Str of
\* the error's display form pushed: its height is stack_size + 1 unless the
\* region consumed values from below stack_size, and then it is lower.  For
\* Raise(Generic) of "boom" the top is "RuntimeError: boom".
C5_HandlerStack ==
    handled =>
        LET left == Len(prev.stack) - Consumed
        IN /\ Len(stack) = Min(left, Top(prev.block_stack).stack_size) + 1
           /\ \A i \in 1..(Len(stack) - 1) : stack[i] = prev.stack[i]
           /\ Top(stack).t = "Str"
           /\ Top(stack).s = Display(instr_res)
           /\ (instr = [op |-> "Raise", kind |-> "Generic"] /\ left < Len(prev.stack)
                  /\ Top(prev.stack) = StrV("boom"))
                 => Top(stack) = StrV("RuntimeError: boom")

\* C5 witness: Raise(Generic) of "boom" was caught by a block set up over one
\* value; the handler starts with two values, "RuntimeError: boom" on top.
C5_Witness ==
    /\ handled
    /\ instr = [op |-> "Raise", kind |-> "Generic"]
    /\ Top(prev.block_stack).stack_size = 1
    /\ Len(stack) = 2
    /\ Top(stack) = StrV("RuntimeError: boom")

\* C6 as stated: Load(name) pushes the value name has in the local env, or
\* else the one it has in globals; when name is bound in neither it fails with
\* UndefinedIdentError(name) and pushes nothing.
C6_LoadResolves ==
    instr.op = "Load" =>
        IF instr.name \in DOMAIN prev.env
        THEN ~Failed /\ stack = Append(prev.stack, prev.env[instr.name])
        ELSE IF instr.name \in DOMAIN prev.globals
        THEN ~Failed /\ stack = Append(prev.stack, prev.globals[instr.name])
        ELSE /\ instr_res = UndefinedIdentError(instr.name)
             /\ ~handled => stack = prev.stack

\* C7: Store(name) with a value v on the stack writes v into exactly one of
\* env and globals and leaves the other as it was: in a function frame
\* (env_stack not empty) with name in the local env, the local; otherwise, if
\* name is in globals, the global; otherwise a new local in a function frame
\* and a global at top level.
C7_StoreWritesOneMapping ==
    (instr.op = "Store" /\ prev.stack # << >>) =>
        LET name == instr.name
            v == Top(prev.stack)
            in_frame == prev.env_stack # << >>
            Written(old, new) ==
                /\ DOMAIN new = DOMAIN old \cup {name}
                /\ new[name] = v
                /\ \A n \in DOMAIN old \ {name} : new[n] = old[n]
            WritesLocal == Written(prev.env, env) /\ globals = prev.globals
            WritesGlobal == Written(prev.globals, globals) /\ env = prev.env
        IN /\ ~Failed
           /\ stack = Front(prev.stack)
           /\ IF in_frame /\ name \in DOMAIN prev.env THEN WritesLocal
              ELSE IF name \in DOMAIN prev.globals THEN WritesGlobal
              ELSE IF in_frame THEN WritesLocal
              ELSE WritesGlobal

\* C7 witness: inside a function frame whose env does not bind current_dir,
\* Store(current_dir) wrote the global and left the local env alone.
C7_Witness ==
    /\ instr = [op |-> "Store", name |-> "current_dir"]
    /\ prev.env_stack # << >>
    /\ prev.stack # << >>
    /\ "current_dir" \notin DOMAIN env
    /\ globals["current_dir"] = Top(prev.stack)
    /\ globals["current_dir"] # prev.globals["current_dir"]

\* the last step was a Ret that returned to its caller
Returned == instr.op = "Ret" /\ status = "running" /\ ~Failed

C9_TailCallReusesFrame ==
    (instr.op = "TailCall" /\ instr.name \in DOMAIN funcs) =>
        LET func == funcs[instr.name]
            n == Len(func.params)
        IN /\ env_stack = prev.env_stack
           /\ ret_stack = prev.ret_stack
           /\ call_height = prev.call_height
           /\ (status = "running" /\ ~Failed) =>
                 /\ pc = func.address
                 /\ DOMAIN env = {func.params[i] : i \in 1..n}
                 /\ \A i \in 1..n : env[func.params[i]] = prev.stack[Len(prev.stack) - n + i]
                 /\ stack = SubSeq(prev.stack, 1, Len(prev.stack) - n)
                 /\ block_stack = prev.block_stack
                 /\ globals = prev.globals

\* C9 witness: inside a call, boom(x) was tail-called from its own body: the
\* frame is still the only one, x is bound anew and pc is back at the entry.
C9_Witness ==
    /\ instr = [op |-> "TailCall", name |-> "boom"]
    /\ status = "running"
    /\ ~Failed
    /\ Len(env_stack) = 1
    /\ prev.pc > funcs["boom"].address
    /\ pc = funcs["boom"].address
    /\ prev.env = EmptyMap
    /\ env = [x \in {"x"} |-> StrV("boom")]

\* C10 as stated: the program ending a function with `Call f; Ret` and its
\* twin ending it with `TailCall f` emit the same lines (the value returned
\* to the original caller among them) and end run the same way, Ok or the
\* same error.
C10_TailCallEquivalent ==
    (variant = "TailCall" /\ status # "running") =>
        /\ output = first.output
        /\ status = first.status
        /\ error = first.error

(* The properties below are about the programs of SpecHeap.                 *)

\* the last step was a StoreIndex or StoreAttr whose base operand was a FrozenDict
FrozenWrite ==
    \/ /\ instr.op = "StoreIndex"
       /\ Len(prev.stack) >= 3
       /\ prev.stack[Len(prev.stack) - 2].t = "FrozenDict"
    \/ /\ instr.op = "StoreAttr"
       /\ Len(prev.stack) >= 2
       /\ prev.stack[Len(prev.stack) - 1].t = "FrozenDict"

\* the base operand of the last StoreIndex or StoreAttr
WriteBase ==
    IF instr.op = "StoreIndex" THEN prev.stack[Len(prev.stack) - 2]
    ELSE prev.stack[Len(prev.stack) - 1]

\* C11: a StoreIndex (whatever the index) or StoreAttr (whatever the attribute)
\* whose base is a FrozenDict fails with FrozenWriteError, and the cell of the
\* FrozenDict is as it was before.
C11_FrozenWriteFails ==
    FrozenWrite =>
        /\ instr_res = FrozenWriteError
        /\ heap[WriteBase.p] = prev.heap[WriteBase.p]

\* C11 witness: a StoreIndex with a Str index on a FrozenDict has failed with
\* FrozenWriteError and ended run.
C11_Witness ==
    /\ FrozenWrite
    /\ instr.op = "StoreIndex"
    /\ prev.stack[Len(prev.stack) - 1].t = "Str"
    /\ instr_res = FrozenWriteError
    /\ status = "Err"
    /\ error = FrozenWriteError

\* C12: no step changes a FrozenDict: every cell that was a FrozenDict before
\* the last step has the same keys, bound to the same values, after it; this
\* includes the writes to the dict that freeze copied.
C12_FrozenDictNeverMutated ==
    \A p \in DOMAIN prev.heap :
        prev.heap[p].kind = "FrozenDict" => p \in DOMAIN heap /\ heap[p] = prev.heap[p]

\* C12 witness: a StoreAttr has written to a Dict of which a FrozenDict held a
\* copy; the FrozenDict still has the contents the Dict had before the write.
C12_Witness ==
    /\ instr.op = "StoreAttr"
    /\ instr_res = NoError
    /\ Len(prev.stack) >= 2
    /\ WriteBase.t = "Dict"
    /\ heap[WriteBase.p] # prev.heap[WriteBase.p]
    /\ \E p \in DOMAIN heap :
           /\ heap[p].kind = "FrozenDict"
           /\ heap[p].map = prev.heap[WriteBase.p].map
           /\ heap[p].map # heap[WriteBase.p].map

\* the value that refers to cell p of heap h
Ref(h, p) ==
    CASE h[p].kind = "List" -> ListV(p)
      [] h[p].kind = "Dict" -> DictV(p)
      [] h[p].kind = "FrozenDict" -> FrozenDictV(p)

\* every value the program holds: the aggregates, the operand stack, the globals
HeldValues ==
    {Ref(heap, p) : p \in DOMAIN heap}
    \cup {stack[i] : i \in DOMAIN stack}
    \cup {globals[n] : n \in DOMAIN globals}

\* C15: to_string terminates on every value the program can build, whatever
\* the iteration order of the maps: the recursion of helper never nests deeper
\* than the number of aggregates, so no call is left unfollowed.
C15_ToStringTerminates ==
    \A v \in HeldValues, ord \in Orders(heap) :
        /\ ~ValueToString(heap, ord, v).cut
        /\ ValueToString(heap, ord, v).seen \subseteq DOMAIN heap

\* C15 witness: StoreAttr has made a dict contain itself through a list
\* (d.a = [d]), and to_string of the dict is "{a: [{...}]}".
C15_Witness ==
    /\ instr.op = "StoreAttr"
    /\ instr_res = NoError
    /\ \E p, q \in DOMAIN heap :
           /\ heap[p].kind = "Dict"
           /\ DOMAIN heap[p].map = {"a"}
           /\ heap[p].map["a"] = ListV(q)
           /\ heap[q].items = << DictV(p) >>
           /\ \A ord \in Orders(heap) : ValueToString(heap, ord, DictV(p)).str = "{a: [{...}]}"

\* the last step was an Add whose operands were both lists
ListAdd ==
    /\ instr.op = "Add"
    /\ Len(prev.stack) >= 2
    /\ prev.stack[Len(prev.stack) - 1].t = "List"
    /\ prev.stack[Len(prev.stack)].t = "List"

\* its left and right operand
AddLeft == prev.stack[Len(prev.stack) - 1]
AddRight == prev.stack[Len(prev.stack)]

\* C16: Add on two distinct lists A (left) and B (right) completes, pushes A
\* itself, and the one cell every alias of A refers to holds the old elements
\* of A followed by the elements of B; B and every other aggregate, and what
\* the globals and the rest of the stack refer to, are unchanged.
C16_AddExtendsInPlace ==
    (ListAdd /\ AddLeft.p # AddRight.p) =>
        /\ instr_res = NoError
        /\ status = "running"
        /\ stack = Append(SubSeq(prev.stack, 1, Len(prev.stack) - 2), AddLeft)
        /\ globals = prev.globals
        /\ DOMAIN heap = DOMAIN prev.heap
        /\ heap[AddLeft.p].items = prev.heap[AddLeft.p].items \o prev.heap[AddRight.p].items
        /\ \A p \in DOMAIN heap : p # AddLeft.p => heap[p] = prev.heap[p]

\* C16 witness: Add on the lists of the globals l and m has completed; l now
\* reads [1, 2, 3] and m still [3].
C16_Witness ==
    /\ ListAdd
    /\ instr_res = NoError
    /\ AddLeft = globals["l"]
    /\ AddRight = globals["m"]
    /\ Top(stack) = globals["l"]
    /\ heap[globals["l"].p].items = << IntV(1), IntV(2), IntV(3) >>
    /\ heap[globals["m"].p].items = << IntV(3) >>

\* C17 as stated: Add whose two operands are one list L completes, and L then
\* holds its old elements twice ([1, 2] becomes [1, 2, 1, 2]), whichever alias
\* it is read through.
C17_SelfAddDoubles ==
    (ListAdd /\ AddLeft.p = AddRight.p) =>
        /\ instr_res = NoError
        /\ status = "running"
        /\ Top(stack) = AddLeft
        /\ heap[AddLeft.p].items = prev.heap[AddLeft.p].items \o prev.heap[AddLeft.p].items

(* The property below is about the programs of SpecArith.                   *)

\* C13 as stated: Div (Mod) executed on Int operands a and b, b on top, fails
\* with ZeroDivisionError when b = 0, and for every other pair of machine
\* integers completes and leaves the quotient (remainder) of a by b in their
\* place.
C13_DivPushesQuotient ==
    (instr.op \in {"Div", "Mod"} /\ Len(prev.stack) = 2) =>
        LET a == prev.stack[1].i
            b == prev.stack[2].i
        IN IF b = 0 THEN instr_res = ZeroDivisionError
           ELSE /\ instr_res = NoError
                /\ status = "running"
                /\ stack = << IntV(IF instr.op = "Div" THEN TruncDiv(a, b)
                                   ELSE TruncRem(a, b)) >>

(* The properties below are about the programs of SpecSlice.                *)

\* the last step was a Slice on a list or string with an Int start and an Int
\* or None end
Sliced ==
    /\ instr.op = "Slice"
    /\ Len(prev.stack) >= 3
    /\ prev.stack[Len(prev.stack) - 2].t \in {"List", "Str"}
    /\ prev.stack[Len(prev.stack) - 1].t = "Int"
    /\ prev.stack[Len(prev.stack)].t \in {"Int", "None"}

\* the elements (characters) of the base of the last Slice, its start and its end
SliceSeq ==
    LET base == prev.stack[Len(prev.stack) - 2]
    IN IF base.t = "List" THEN prev.heap[base.p].items ELSE Chars(base.s)
SliceStart == prev.stack[Len(prev.stack) - 1].i
SliceEnd ==
    IF prev.stack[Len(prev.stack)].t = "None" THEN Len(SliceSeq) ELSE prev.stack[Len(prev.stack)].i

\* C14: Slice on a list or string of length len with start s and end e (None:
\* len) replaces its operands by the sub-sequence base[s:e] exactly when
\* 0 <= s <= e <= len; otherwise it fails with IndexError("Slice indices out of
\* bounds!") and pushes nothing.
C14_SliceBounds ==
    Sliced =>
        LET below == SubSeq(prev.stack, 1, Len(prev.stack) - 3)
            sub == SubSeq(SliceSeq, SliceStart + 1, SliceEnd)
        IN IF 0 <= SliceStart /\ SliceStart <= SliceEnd /\ SliceEnd <= Len(SliceSeq)
           THEN /\ instr_res = NoError
                /\ Len(stack) = Len(below) + 1
                /\ SubSeq(stack, 1, Len(below)) = below
                /\ IF prev.stack[Len(prev.stack) - 2].t = "List"
                   THEN Top(stack).t = "List" /\ heap[Top(stack).p].items = sub
                   ELSE Top(stack) = StrV(FromChars(sub))
           ELSE /\ instr_res = IndexError("Slice indices out of bounds!")
                /\ stack = below
                /\ heap = prev.heap

\* C14 witness: a Slice with start 1 and end None on a list of two elements
\* has pushed a list holding the second element.
C14_Witness ==
    /\ Sliced
    /\ prev.stack[Len(prev.stack)].t = "None"
    /\ prev.stack[Len(prev.stack) - 2].t = "List"
    /\ Len(SliceSeq) = 2
    /\ SliceStart = 1
    /\ instr_res = NoError
    /\ heap[Top(stack).p].items = << SliceSeq[2] >>

(* The properties below are about the images of SpecParse and SpecLoad.     *)

\* C18: parse_bytecode applied to the image of an instruction stream and a
\* function table returns that stream, instruction by instruction with its
\* operands, and that function table.
C18_RoundTrip ==
    (status # "loading" /\ source # NoSource) =>
        /\ status = "parsed"
        /\ code = ZeroBased(source.code)
        /\ funcs = source.funcs

\* C18 witness: the image of `PushInt -1; Raise Syntax` and of a table of two
\* functions, one of them with two parameters, has been parsed.
C18_Witness ==
    /\ status = "parsed"
    /\ source # NoSource
    /\ source.code = << [op |-> "PushInt", v |-> -1], [op |-> "Raise", kind |-> "Syntax"] >>
    /\ code = ZeroBased(source.code)
    /\ DOMAIN funcs = {"a", "ab"}
    /\ funcs["ab"].params = <<"a", "b">>

\* the code_len field of an image whose header parse_bytecode accepts
DeclaredCodeLen(bytes) == read_u32(bytes, ReadHeader(bytes).idx).v

\* the opcode bytes of a raw image
RawOpcodes(bytes) == SubSeq(bytes, 17, Len(bytes))

\* C19 as stated: an image whose code section has an opcode byte outside
\* 0..51 is not accepted, and every image that is accepted gives exactly
\* code_len instructions.
C19_UnknownOpcodeRejected ==
    /\ (status # "loading" /\ source = NoSource
            /\ \E i \in DOMAIN RawOpcodes(data) : RawOpcodes(data)[i] > 51)
           => status = "panic"
    /\ status = "parsed" => code_len = DeclaredCodeLen(data)

\* C20 as stated: every function of the table parse_bytecode returned has its
\* address below the number of decoded instructions, and a Call that run
\* executes leaves pc inside the code.
C20_EntryWithinCode ==
    /\ status \in {"parsed", "running", "Ok", "Err"} =>
           \A name \in DOMAIN funcs : funcs[name].address < code_len
    /\ (instr.op = "Call" /\ instr_res = NoError /\ status = "running") => pc < code_len

\* C21 as stated: a VmInvariant error that occurs while block_stack is
\* non-empty is not delivered to the handler: run ends with that error.
C21_VmInvariantAborts ==
    (Failed /\ instr_res.k = "VmInvariant" /\ prev.block_stack # << >>) =>
        /\ ~handled
        /\ status = "Err"
        /\ error = instr_res

\* C22 as stated: Ret executed while ret_stack and env_stack are empty either
\* terminates run or fails with a VmInvariant error that run returns or that
\* is unwound to a handler.
C22_RetOnEmptyStacks ==
    (instr.op = "Ret" /\ prev.ret_stack = << >> /\ prev.env_stack = << >>) =>
        \/ status = "running" /\ ~Failed /\ pc >= code_len
        \/ status = "Ok"
        \/ /\ instr_res.k = "VmInvariant"
           /\ handled \/ (status = "Err" /\ error = instr_res)

\* C23: Raise(kind) executed on an empty operand stack fails with
\* VmInvariant("stack underflow on RAISE"), whatever the kind, and the stack
\* stays empty unless a handler receives the error.
C23_RaiseOnEmptyStack ==
    (instr.op = "Raise" /\ prev.stack = << >>) =>
        /\ instr_res = VmInvariant("stack underflow on RAISE")
        /\ ~handled => (stack = << >> /\ error = instr_res /\ status = "Err")

\* C23 witness: Raise(Value) on an empty stack outside any protected region
\* ended run with the VmInvariant error.
C23_Witness ==
    /\ instr = [op |-> "Raise", kind |-> "Value"]
    /\ prev.stack = << >>
    /\ status = "Err"
    /\ error = VmInvariant("stack underflow on RAISE")

\* C24: Call(name) and TailCall(name) of a name that is not in the function
\* table, and CallValue whose callee is a Str that is not in the table, fail
\* with UndefinedIdentError of the name; CallValue whose callee is not a Str
\* fails with TypeError("Call value expects function name"); the failing
\* instruction leaves env, env_stack and ret_stack as they were (a handler
\* that receives the error then cuts them as unwinding does).
C24_UnknownCalleeFails ==
    /\ (instr.op \in {"Call", "TailCall"} /\ instr.name \notin DOMAIN funcs) =>
           /\ instr_res = UndefinedIdentError(instr.name)
           /\ ~handled => (env = prev.env /\ env_stack = prev.env_stack
                             /\ ret_stack = prev.ret_stack /\ stack = prev.stack)
    /\ (instr.op = "CallValue" /\ Len(prev.stack) > instr.argc) =>
           LET callee == prev.stack[Len(prev.stack) - instr.argc]
               missing == callee.t # "Str" \/ callee.s \notin DOMAIN funcs
           IN /\ (callee.t = "Str" /\ callee.s \notin DOMAIN funcs) =>
                     instr_res = UndefinedIdentError(callee.s)
              /\ callee.t # "Str" =>
                     instr_res = TypeError("Call value expects function name")
              /\ (missing /\ ~handled) =>
                     (env = prev.env /\ env_stack = prev.env_stack
                        /\ ret_stack = prev.ret_stack)
    /\ status = "running" =>
           /\ \A name \in FuncNames \ DOMAIN funcs :
                  /\ Call(VM, funcs, name).s = VM
                  /\ TailCall(VM, funcs, name).s = VM
           /\ \A argc \in Argcs :
                  (Len(stack) > argc
                     /\ (stack[Len(stack) - argc].t = "Str"
                            => stack[Len(stack) - argc].s \notin DOMAIN funcs)) =>
                      CallValue(VM, funcs, argc).s = Drop(VM, argc + 1)

\* C24 witness: one call deep, CallValue(0) on the callee "." (no function has
\* that name) ended run with UndefinedIdentError("."), the frame still there.
C24_Witness ==
    /\ instr = [op |-> "CallValue", argc |-> 0]
    /\ prev.stack # << >>
    /\ Top(prev.stack) = StrV(".")
    /\ Len(prev.env_stack) = 1
    /\ status = "Err"
    /\ error = UndefinedIdentError(".")
    /\ Len(env_stack) = 1
    /\ Len(ret_stack) = 1

\* the operands of the instruction of the last step: a below b on the stack
\* before it
OperandB == Top(prev.stack)
OperandA == prev.stack[Len(prev.stack) - 1]

\* v is a Str that is not a decimal integer
BadLiteral(v) == v.t = "Str" /\ ~parse(v.s).ok

\* as_int's error for v
InvalidLiteral(v) == TypeError("Invalid literal for int(): '" \o v.s \o "'")

\* C27 as stated: Sub, Mul, Div, Mod, BAnd, BOr, BXor, Shl, Shr, Not, Neg, and
\* Lt/Le/Gt/Ge on a pair that is not two strings, applied to a Str operand
\* that is not a decimal integer, fail with TypeError("Invalid literal for
\* int(): '<s>'") of such an operand and push no result.
C27_BadLiteralIsTypeError ==
    /\ (instr.op \in {"Not", "Neg"} /\ prev.stack # << >> /\ BadLiteral(OperandB)) =>
           /\ instr_res = InvalidLiteral(OperandB)
           /\ stack = Front(prev.stack)
    /\ (instr.op \in {"Sub", "Mul", "Div", "Mod", "BAnd", "BOr", "BXor", "Shl", "Shr",
                      "Lt", "Le", "Gt", "Ge"}
          /\ Len(prev.stack) >= 2
          /\ (BadLiteral(OperandA) \/ BadLiteral(OperandB))
          /\ ~(instr.op \in {"Lt", "Le", "Gt", "Ge"} /\ OperandA.t = "Str" /\ OperandB.t = "Str")) =>
           /\ instr_res \in {InvalidLiteral(v) : v \in {w \in {OperandA, OperandB} : BadLiteral(w)}}
           /\ Len(stack) <= Len(prev.stack) - 1
           /\ \A i \in 1..Len(stack) : stack[i] = prev.stack[i]

\* C27 amended: the same, except that Div and Mod whose right operand
\* coerces to 0 fail with ZeroDivisionError before the left operand is
\* coerced, whatever the left operand is.  The operand named in the error is
\* the right one when it is not a decimal integer (the left one first for
\* Lt/Le/Gt/Ge), else the left one.  In the integer case of Add no operand is
\* a Str: Add with a Str operand concatenates.
C27_BadLiteralFails ==
    /\ (instr.op \in {"Not", "Neg"} /\ prev.stack # << >> /\ BadLiteral(OperandB)) =>
           /\ instr_res = InvalidLiteral(OperandB)
           /\ stack = Front(prev.stack)
    /\ (instr.op \in {"Sub", "Mul", "Div", "Mod", "BAnd", "BOr", "BXor", "Shl", "Shr",
                      "Lt", "Le", "Gt", "Ge"}
          /\ Len(prev.stack) >= 2
          /\ (BadLiteral(OperandA) \/ BadLiteral(OperandB))
          /\ ~(instr.op \in {"Lt", "Le", "Gt", "Ge"} /\ OperandA.t = "Str" /\ OperandB.t = "Str")) =>
           LET compare == instr.op \in {"Lt", "Le", "Gt", "Ge"}
               zero == /\ instr.op \in {"Div", "Mod"}
                       /\ ~BadLiteral(OperandB)
                       /\ as_int(prev.heap, OperandB).v = 0
               named == IF compare
                        THEN (IF BadLiteral(OperandA) THEN OperandA ELSE OperandB)
                        ELSE (IF BadLiteral(OperandB) THEN OperandB ELSE OperandA)
           IN /\ instr_res = IF zero THEN ZeroDivisionError ELSE InvalidLiteral(named)
              /\ Len(stack) <= Len(prev.stack) - 1
              /\ \A i \in 1..Len(stack) : stack[i] = prev.stack[i]
              /\ status = "Err"
              /\ error = instr_res
    /\ (instr.op = "Add" /\ Len(prev.stack) >= 2 /\ "Str" \in {OperandA.t, OperandB.t}) =>
           /\ ~Failed
           /\ Top(stack).t = "Str"

\* C27 witness: Neg of the Str "1a" ended run with the TypeError, the stack
\* empty.
C27_Witness ==
    /\ instr = [op |-> "Neg"]
    /\ prev.stack = <<StrV("1a")>>
    /\ status = "Err"
    /\ error = TypeError("Invalid literal for int(): '1a'")
    /\ stack = << >>

\* the arguments of the CallBuiltin of the last step
BuiltinArgs == TopN(prev.stack, instr.argc)

\* args match the signature of the builtin name (a name that is no builtin
\* has no signature): the number of arguments and the type of each
MatchesSignature(name, args) ==
    LET Types(ts) == Len(args) = Len(ts) /\ \A i \in 1..Len(ts) : args[i].t \in ts[i]
    IN CASE name \in {"chr", "hex", "file_read", "file_close"} -> Types(<<{"Int"}>>)
         [] name = "ascii" -> Types(<<{"Str"}>>) /\ Len(args[1].s) = 1
         [] name = "binary" -> Types(<<{"Int"}>>) \/ Types(<<{"Int"}, {"Int"}>>)
         [] name = "length" -> Types(<<{"List", "Str"}>>)
         [] name = "freeze" -> Types(<<{"Dict", "FrozenDict"}>>)
         [] name \in {"panic", "raise", "read_file", "file_exists"} -> Types(<<{"Str"}>>)
         [] name = "file_open" -> Types(<<{"Str"}, {"Str"}>>)
         [] name = "file_write" -> Types(<<{"Int"}, {"Str", "List"}>>)
         [] name = "call_builtin" -> Types(<<{"Str"}, {"List"}>>)
         [] OTHER -> FALSE

\* well-typed arguments outside the value domain: a width of binary that is
\* not positive, a mode of file_open that is none of r, rb, w, wb, a, ab
OutsideDomain(name, args) ==
    /\ MatchesSignature(name, args)
    /\ \/ name = "binary" /\ Len(args) = 2 /\ args[2].i <= 0
       \/ name = "file_open" /\ args[2].s \notin {"r", "rb", "w", "wb", "a", "ab"}

\* C25: a CallBuiltin whose arguments do not match the signature of the named
\* builtin (their number or their types), or that names no builtin, fails
\* with a TypeError; one with well-typed arguments outside the value domain
\* (binary width <= 0, invalid file mode) fails with a ValueError; in both
\* cases no value is pushed.  (call_builtin itself is called on a name and a
\* list; what the inner call does is C26.)
C25_MismatchIsTypeError ==
    (instr.op = "CallBuiltin" /\ Len(prev.stack) >= instr.argc) =>
        /\ ~MatchesSignature(instr.name, BuiltinArgs) =>
               /\ instr_res.k = "TypeError"
               /\ status = "Err" /\ error = instr_res
               /\ stack = SubSeq(prev.stack, 1, Len(prev.stack) - instr.argc)
               /\ heap = prev.heap /\ files = prev.files
        /\ OutsideDomain(instr.name, BuiltinArgs) =>
               /\ instr_res.k = "ValueError"
               /\ status = "Err" /\ error = instr_res
               /\ stack = SubSeq(prev.stack, 1, Len(prev.stack) - instr.argc)
               /\ heap = prev.heap /\ files = prev.files

\* C25 witness: binary(1, 0) failed with the ValueError of the width, and
\* nothing was pushed.
C25_Witness ==
    /\ instr = [op |-> "CallBuiltin", name |-> "binary", argc |-> 2]
    /\ prev.stack = <<IntV(1), IntV(0)>>
    /\ status = "Err"
    /\ error = ValueError("binary() width must be positive")
    /\ stack = << >>

\* what a value is, whatever the address of its cell
Deref(h, v) == IF v.t \in {"List", "Dict", "FrozenDict"} THEN [t |-> v.t, cell |-> h[v.p]] ELSE v

\* the outcomes o1 and o2 of two arms are the same: the same exit, the same
\* error or the same value pushed, and the same files
SameOutcome(o1, o2) ==
    /\ o1.exit = o2.exit
    /\ o1.err = o2.err
    /\ o1.s.files = o2.s.files
    /\ o1.exit = "ok" =>
           Deref(o1.s.heap, Top(o1.s.stack)) = Deref(o2.s.heap, Top(o2.s.stack))

\* CallBuiltin(n, len(xs)) applied to xs in the state before the last step,
\* where the last step applied CallBuiltin("call_builtin", 2) to n and the
\* list xs
Direct(nd) ==
    LET n == BuiltinArgs[1].s
        xs == prev.heap[BuiltinArgs[2].p].items
    IN CallBuiltin([prev EXCEPT !.stack = SubSeq(@, 1, Len(@) - 2) \o xs], nd, n, Len(xs))

\* C26: CallBuiltin("call_builtin", 2) applied to a name n and a list xs has
\* the outcome of CallBuiltin(n, len(xs)) applied to xs: for every answer of
\* the environment both arms give the same value or the same error, and what
\* the step did is what the direct call does for one of these answers.
C26_DispatchTransparent ==
    (/\ instr = [op |-> "CallBuiltin", name |-> "call_builtin", argc |-> 2]
     /\ Len(prev.stack) >= 2
     /\ BuiltinArgs[1].t = "Str"
     /\ BuiltinArgs[2].t = "List") =>
        /\ \A nd \in Choices(prev.heap, [op |-> "CallBuiltin", name |-> BuiltinArgs[1].s]) :
               SameOutcome(CallBuiltin(prev, nd, "call_builtin", 2), Direct(nd))
        /\ \E nd \in Choices(prev.heap, [op |-> "CallBuiltin", name |-> BuiltinArgs[1].s]) :
               /\ Direct(nd).err = instr_res
               /\ files = Direct(nd).s.files
               /\ (status = "panic") = (Direct(nd).exit = "panic")
               /\ Direct(nd).exit = "ok" =>
                      /\ Len(stack) = Len(prev.stack) - 1
                      /\ Deref(heap, Top(stack))
                             = Deref(Direct(nd).s.heap, Top(Direct(nd).s.stack))

\* C26 witness: call_builtin("hex", [-1]) pushed what hex(-1) gives, the
\* digit f.
C26_Witness ==
    /\ instr = [op |-> "CallBuiltin", name |-> "call_builtin", argc |-> 2]
    /\ Len(prev.stack) = 2
    /\ prev.stack[1] = StrV("hex")
    /\ prev.stack[2].t = "List"
    /\ prev.heap[prev.stack[2].p].items = <<IntV(-1)>>
    /\ stack = <<StrV("f")>>
    /\ status = "running"

\* a call returned to a thread in this step
CallReturns == callers'.last.tick # callers.last.tick

\* C28 as stated: with several threads interleaving the file builtins, no two
\* successful file_open calls return the same handle, and every insert into
\* and removal from the handle table takes effect: the step that inserts
\* leaves the table with the new entry and all others as they were, and the
\* file_close that succeeds leaves it without the handle's entry and all
\* others as they were.
C28_HandlesDistinct ==
    [][ /\ (CallReturns /\ callers'.last.name = "file_open" /\ callers'.last.ok) =>
               /\ callers'.last.val.i \notin callers.issued
               /\ \E t \in Threads :
                      /\ callers.at[t] # Idle
                      /\ files'.table = Insert(files.table, callers.at[t].handle,
                                               callers.at[t].entry)
        /\ (CallReturns /\ callers'.last.name = "file_close" /\ callers'.last.ok) =>
               /\ DOMAIN files'.table = DOMAIN files.table \ {ToFd(callers'.last.args[1].i)}
               /\ \A h \in DOMAIN files'.table : files'.table[h] = files.table[h]
      ]_vars

\* C29 as stated: file_read, file_write and file_close succeed only on an
\* integer that a successful file_open returned and that was not closed
\* since; on any other integer they fail with ValueError("invalid file
\* handle") and leave the handle table as it was; an integer that was closed
\* is never accepted again.
C29_OnlyLiveHandles ==
    [][ (CallReturns /\ callers'.last.name \in {"file_read", "file_write", "file_close"}) =>
            LET h == callers'.last.args[1].i
            IN /\ callers'.last.ok => (h \in callers.live /\ h \notin callers.closed)
               /\ h \notin callers.live =>
                      /\ ~callers'.last.ok
                      /\ callers'.last.err = ValueError("invalid file handle")
                      /\ files'.table = files.table
      ]_vars

\* C30 as stated: BuildDict(n) pops n (key, value) pairs and pushes a dict of
\* the stringified keys; a key that two pairs have is bound to the value of
\* the pair pushed later.
C30_LastPairWins ==
    (instr.op = "BuildDict" /\ Len(prev.stack) >= 2 * instr.n) =>
        LET pairs == TopN(prev.stack, 2 * instr.n)
            key(i) == to_string(pairs[2 * i - 1])
            last(k) == CHOOSE i \in 1..instr.n :
                           key(i) = k /\ \A j \in 1..instr.n : key(j) = k => j <= i
        IN /\ ~Failed
           /\ Len(stack) = Len(prev.stack) - 2 * instr.n + 1
           /\ Top(stack).t = "Dict"
           /\ DOMAIN heap[Top(stack).p].map = {key(i) : i \in 1..instr.n}
           /\ \A k \in DOMAIN heap[Top(stack).p].map :
                  heap[Top(stack).p].map[k] = pairs[2 * last(k)]

\* C31 as stated: Attr and StoreAttr on a base that is neither a Dict nor a
\* FrozenDict fail with a TypeError, and a StoreAttr that completes has
\* written the attribute into a Dict.
C31_AttrOnlyOnDicts ==
    /\ (instr.op = "Attr" /\ prev.stack # << >>
          /\ Top(prev.stack).t \notin {"Dict", "FrozenDict"}) =>
           instr_res.k = "TypeError"
    /\ (instr.op = "StoreAttr" /\ Len(prev.stack) >= 2) =>
           LET base == prev.stack[Len(prev.stack) - 1]
           IN /\ base.t \notin {"Dict", "FrozenDict"} => instr_res.k = "TypeError"
              /\ ~Failed =>
                     /\ base.t = "Dict"
                     /\ instr.attr \in DOMAIN heap[base.p].map
                     /\ heap[base.p].map[instr.attr] = Top(prev.stack)

\* C32: a Call or CallValue that completed has saved its pc + 1 and the env it
\* executed in on top of ret_stack and env_stack, and the Ret that returns from
\* a frame resumes at the instruction after the call that pushed the frame,
\* with the env that call executed in (whatever the callee bound in its own
\* env), and pops that frame only: the frames return in LIFO order.
C32_RetRestoresCaller ==
    /\ (instr.op \in {"Call", "CallValue"} /\ status = "running" /\ ~Failed) =>
           /\ Top(call_height).pc = prev.pc
           /\ Top(call_height).env = prev.env
           /\ ret_stack = Append(prev.ret_stack, prev.pc + 1)
           /\ env_stack = Append(prev.env_stack, prev.env)
    /\ Returned =>
           /\ pc = Top(prev.call_height).pc + 1
           /\ env = Top(prev.call_height).env
           /\ call_height = Front(prev.call_height)
           /\ ret_stack = Front(prev.ret_stack)
           /\ env_stack = Front(prev.env_stack)

\* C32 witness: two calls deep, g() returned into boom(x): boom runs on after
\* its Call g with x bound as it was, and the frame of the top level is left.
C32_Witness ==
    /\ Returned
    /\ Len(prev.call_height) = 2
    /\ Top(prev.call_height).op = "Call"
    /\ prev.env = EmptyMap
    /\ env = [x \in {"x"} |-> StrV("boom")]
    /\ pc = Top(prev.call_height).pc + 1
    /\ Len(ret_stack) = 1

\* C33 as stated: the handler runs with the env of the frame that executed
\* SetupExcept.  In the programs of SpecHandler that frame is p's, x is bound
\* to 1 in it when SetupExcept executes and nothing stores to x: when an
\* error has been caught, Load x pushes 1, whichever of Call, CallValue and
\* TailCall was executed in the protected region.
C33_HandlerSeesFrameEnv ==
    (handled /\ status = "running") =>
        /\ "x" \in DOMAIN env
        /\ env["x"] = IntV(1)
        /\ Top(Load(VM, "x").s.stack) = IntV(1)

\* C34 as stated: after Store(name) executed with a value v on the operand
\* stack, a Load(name) that follows immediately pushes v, in every frame
\* configuration (top level, nested calls, after a TailCall).
C34_StoreThenLoad ==
    (instr.op = "Store" /\ prev.stack # << >> /\ status = "running") =>
        /\ Load(VM, instr.name).exit = "ok"
        /\ Top(Load(VM, instr.name).s.stack) = Top(prev.stack)

\* C35 as stated: every instruction that consumes operands and is executed
\* on an operand stack holding fewer values than it consumes makes run
\* return the VmInvariant error of stack underflow.
C35_UnderflowReported ==
    (instr \in Consumers /\ Len(prev.stack) < Operands(instr)) =>
        status = "Err" /\ error = Underflow

\* C36 as stated: CallValue(argc) on the name of a function with k parameters
\* binds the parameters as Call does when argc = k (the caller's env and the
\* return address pushed, env the parameters bound to the arguments in order,
\* pc the function's address), and when argc # k it fails with a RuntimeError
\* on the normal error path, env, env_stack and ret_stack being left as they
\* were.
C36_CallValueArity ==
    LET argc == instr.argc
        func_val == prev.stack[Len(prev.stack) - argc]
        func == funcs[func_val.s]
        k == Len(func.params)
    IN (/\ instr.op = "CallValue"
        /\ Len(prev.stack) > argc
        /\ func_val.t = "Str"
        /\ func_val.s \in DOMAIN funcs) =>
           IF argc = k
           THEN /\ status = "running"
                /\ instr_res = NoError
                /\ env = BindParams(func.params, TopN(prev.stack, k))
                /\ env_stack = Append(prev.env_stack, prev.env)
                /\ ret_stack = Append(prev.ret_stack, prev.pc + 1)
                /\ pc = func.address
                /\ stack = SubSeq(prev.stack, 1, Len(prev.stack) - argc - 1)
           ELSE /\ instr_res # NoError
                /\ status = "Err" \/ handled
                /\ ret_stack = prev.ret_stack
                /\ ~handled => env = prev.env /\ env_stack = prev.env_stack

\* C37 as stated: every builtin call returns: CallBuiltin applied to any
\* arguments, a list that contains itself included, ends with a value pushed
\* or with a RuntimeError, and never with the process dying in the call.
C37_BuiltinReturns ==
    (instr.op = "CallBuiltin" /\ Len(prev.stack) >= instr.argc) =>
        /\ status # "panic"
        /\ \/ instr_res # NoError
           \/ status = "running" /\ Len(stack) = Len(prev.stack) - instr.argc + 1

\* C38 as stated: Eq applied to two distinct dicts that hold the same
\* key-to-value pairs pushes true, and Ne pushes false, whatever the order in
\* which the pairs were inserted and on every run.
C38_EqOfEqualDicts ==
    LET b == Top(prev.stack)
        a == prev.stack[Len(prev.stack) - 1]
    IN (/\ instr.op \in {"Eq", "Ne"}
        /\ Len(prev.stack) >= 2
        /\ a.t = "Dict" /\ b.t = "Dict" /\ a.p # b.p
        /\ prev.heap[a.p].map = prev.heap[b.p].map) =>
           /\ status = "running"
           /\ Top(stack) = BoolV(instr.op = "Eq")

\* the string of val in which the placeholder stands only for an aggregate
\* that is being printed on the current path of the recursion (path), every
\* other occurrence of an aggregate being printed in full
RECURSIVE PathString(_, _, _, _)
PathString(h, ord, val, path) ==
    CASE val.t = "List" ->
             IF val.p \in path THEN "[...]"
             ELSE LET items == h[val.p].items
                  IN "[" \o join([i \in 1..Len(items) |->
                                     PathString(h, ord, items[i], path \cup {val.p})]) \o "]"
      [] val.t \in {"Dict", "FrozenDict"} ->
             IF val.p \in path THEN "{...}"
             ELSE LET keys == ord[val.p]
                  IN "{" \o join([i \in 1..Len(keys) |->
                                     keys[i] \o ": "
                                     \o PathString(h, ord, h[val.p].map[keys[i]],
                                                   path \cup {val.p})]) \o "}"
      [] OTHER -> to_string(val)

\* C39 as stated: the string that `"" + v` pushes for an aggregate v has the
\* placeholder only where an aggregate refers back to one being printed on
\* the current path; an aggregate that occurs twice without a cycle is
\* printed in full at both occurrences.
C39_PlaceholderOnlyOnCycles ==
    LET b == Top(prev.stack)
        a == prev.stack[Len(prev.stack) - 1]
    IN (/\ instr.op = "Add"
        /\ Len(prev.stack) >= 2
        /\ a = StrV("")
        /\ b.t \in {"List", "Dict"}) =>
           /\ status = "running"
           /\ \E ord \in Orders(prev.heap) :
                  Top(stack) = StrV(PathString(prev.heap, ord, b, {}))

====
